---- MODULE Spec2Model ----
(***************************************************************************)
(* Transaction submission and confirmation layer of the volume bot:        *)
(*   - SimpleVolumeBot._confirmTransaction   (multi-wallet bot)            *)
(*   - JupiterPortalClient._sendAndConfirmTransactionWithRetry + resender  *)
(*   - SimpleVolumeBot.fundTraderWallet                                    *)
(*   - transferWithRetries (airdrop bundler)                               *)
(*   - the per-group bundle buy loop of the bundler's main                 *)
(* Every awaited call is a suspension point: an action is the settling of  *)
(* the awaited call together with the synchronous code that follows it up  *)
(* to the next await.                                                      *)
(***************************************************************************)
EXTENDS Integers, Sequences, FiniteSets, TLC

(***************************************************************************)
(* Bounds of the model.                                                    *)
(***************************************************************************)
\* the network's block height runs from 0 to MaxHeight
MaxHeight == 3
\* a blockhash of block b is valid up to block height b + Validity
Validity == 1
\* getLatestBlockhash answers with a block at most MaxLag behind the height
MaxLag == 1
\* a status request takes 0..MaxLatency poll intervals to settle
MaxLatency == 1
\* the bot trades with 0..MaxWallets trader wallets
MaxWallets == 6
\* start() runs at most MaxCycles rounds of group trade cycles
MaxCycles == 2
\* a PumpPortalClient runs at most MaxSockets WebSocket constructors
MaxSockets == 3
\* and serves at most MaxCalls calls of its methods
MaxCalls == 4
\* a caller runs at most MaxCycleCalls trade cycles of one wallet
MaxCycleCalls == 3
\* a SimpleRequestQueue is handed at most MaxOps operations
MaxOps == 4
\* the token program logs at most MaxLogs matching lines
MaxLogs == 3
\* start() of a SimpleVolumeBot is called at most MaxStarts times
MaxStarts == 3
\* the loop of start() runs at most MaxRounds rounds
MaxRounds == 2
\* a VolumeBot serves at most MaxBotCalls calls of startVolumeBot and
\* stopVolumeBot
MaxBotCalls == 4

(***************************************************************************)
(* Program constants.                                                      *)
(***************************************************************************)
\* _sendAndConfirmTransactionWithRetry(transaction, maxAttempts = 3): the one
\* caller passes no maxAttempts; the model runs the call for 0..3
defaultMaxAttempts == 3
\* fundTraderWallet
fundMaxRetries == 3
confirmationTimeout == 30000
fundPollInterval == 2000
fundRetryDelay == 2000
\* SimpleVolumeBot.start: wallets per trading group
groupSize == 5
\* executeTradeBundle: a bundle holds 1..5 transactions
maxBundleSize == 5
\* transferWithRetries(..., maxRetries = 3, delayMs = 3000): the one caller
\* passes neither; the model runs the call for maxRetries in 0..3
transferMaxRetries == 3
\* the group buy loop and waitForBundleConfirmation(bundleId, timeout = 45000)
buyMaxRetries == 45
bundleTimeout == 45000
bundlePollInterval == 1000
\* _confirmTransaction
maxAttempts == 5
maxRateLimitRetries == 3
initialDelay == 3000
rateLimitBaseDelay == 1000

RECURSIVE Pow2(_)
\* Math.pow(2, n) for the non-negative integers the code passes
Pow2(n) == IF n = 0 THEN 1 ELSE 2 * Pow2(n - 1)

VARIABLES
    \* ---- the network -------------------------------------------------
    height,               \* current block height of the network
    landed,               \* signatures of the fund transfers the network has
                          \* executed and confirmed
    \* ---- SimpleVolumeBot._confirmTransaction --------------------------
    ctPc,                 \* the await the call is suspended at
    lastValidBlockHeight, \* of the lease fetched at the start of the call
    attempts,
    rateLimitRetries,
    ctResult,             \* "pending" | "true" | "false"
    history,              \* outcome of every primary status query, in order
    waits,                \* every setTimeout scheduled: <<kind, ms>>
    pollHeight,           \* block height at the latest primary status query
    lastStatus,           \* the latest primary status response
    fallbackCalls,        \* times the code reached _checkSolscanStatus(...)
    secondaryQueries,     \* requests that reached the secondary service
    solscanStatus         \* what the secondary service would report

netVars == <<height, landed>>
ctVars == <<ctPc, lastValidBlockHeight, attempts, rateLimitRetries, ctResult,
            history, waits, pollHeight, lastStatus, fallbackCalls,
            secondaryQueries, solscanStatus>>

VARIABLES
    \* ---- JupiterPortalClient._sendAndConfirmTransactionWithRetry ------
    jPc,            \* the await the call is suspended at
    jMaxAttempts,   \* the maxAttempts argument
    jAttempt,       \* the loop variable attempt
    jFetched,       \* attempt -> what getLatestBlockhash answered in the attempt
    jLease,         \* attempt -> {blockhash, lastValidBlockHeight} of the attempt
    jSerialized,    \* attempt -> serializedTransaction of the attempt
    jSignature,     \* the function-level variable signature
    jAborted,       \* attempt -> controller.signal.aborted of the attempt
    jRs,            \* attempt -> state of the attempt's abortableResender
    jSends,         \* every sendRawTransaction call started: attempt, kind, tx
    jOutcome,       \* attempt -> per-attempt state
    jExpired,       \* leases an attempt has observed as expired
    jResult,        \* "pending" | "returned" | "threw"
    jConfirmErr,    \* value.err of the confirmation the call returned on
    jError          \* the error the call threw

jVars == <<jPc, jMaxAttempts, jAttempt, jFetched, jLease, jSerialized, jSignature,
           jAborted, jRs, jSends, jOutcome, jExpired, jResult, jConfirmErr,
           jError>>

VARIABLES
    \* ---- SimpleVolumeBot.fundTraderWallet ------------------------------
    fPc,            \* the await the call is suspended at
    fAttempt,       \* the loop variable attempt
    fSignature,     \* signature of the current attempt
    fElapsed,       \* Date.now() - startTime of the current attempt, ms
    fSends,         \* signatures of the transfers submitted, in order
    fOutcome,       \* attempt -> per-attempt state
    fWaits,         \* the inter-attempt delays scheduled, ms
    fResult,        \* "pending" | "returned" | "threw" | "undefined"
    fErrSeen,       \* a status response of the call reported an execution
                    \* error and neither 'confirmed' nor 'finalized'
    fError,         \* the error the call threw
    \* ---- transferWithRetries -------------------------------------------
    tPc,
    tMaxRetries,    \* the maxRetries argument
    tAttempt,
    tSubmitted,     \* transfers that reached the network
    tOutcome,       \* attempt -> per-attempt state
    tResult,        \* "pending" | "returned" | "threw" | "undefined"
    tSignature,     \* transferTx of the latest attempt whose transfer resolved
    tError,         \* the error the call threw
    \* ---- the group buy retry loop of main ------------------------------
    bPc,
    currentTry,
    bBundleId,      \* jitoJson.result of the current try
    bElapsed,       \* time spent in waitForBundleConfirmation, ms
    bSubmitted,     \* number of bundles the relay accepted
    bResult,        \* "pending" | "returned" | "threw"
    bQueried,       \* the bundle id in the latest getBundleStatuses request
    bStatusSeen,    \* what the latest getBundleStatuses request was answered
    bReport         \* the object the flow returns: bundleId and status

fVars == <<fPc, fAttempt, fSignature, fElapsed, fSends, fOutcome, fWaits,
           fResult, fErrSeen, fError>>
tVars == <<tPc, tMaxRetries, tAttempt, tSubmitted, tOutcome, tResult,
           tSignature, tError>>
bVars == <<bPc, currentTry, bBundleId, bElapsed, bSubmitted, bResult,
           bQueried, bStatusSeen, bReport>>

VARIABLES
    \* ---- PumpPortalSwapTester.executeTrade -----------------------------
    etPc,           \* the await the call is suspended at
    transaction,    \* the transaction built by the trade endpoint, signed
    retries,
    txid,           \* signature returned by the latest sendTransaction
    etSends,        \* every sendTransaction call: the transaction sent and
                    \* the block height at the call
    etResult        \* "pending" | "returned" | "threw"

etVars == <<etPc, transaction, retries, txid, etSends, etResult>>

VARIABLES
    \* ---- PumpPortalClient.executeTrade / executeTradeBundle ------------
    ppPc,           \* the await the call is suspended at
    ppOp,           \* "executeTrade" | "executeTradeBundle"
    signerKeyPair,  \* config.signerKeyPair is set
    bundleSigners,  \* i -> config.bundleSigners[i] is set
    bundleLen,      \* bundleParams.length (0 also for a non-array)
    ppCalls,        \* the network calls made, in order
    relayAnswer,    \* what the bundling relay answered
    ppResult,       \* "pending" | "returned" | "threw"
    ppError         \* message of the error thrown

ppVars == <<ppPc, ppOp, signerKeyPair, bundleSigners, bundleLen, ppCalls,
            relayAnswer, ppResult, ppError>>

VARIABLES
    \* ---- SimpleVolumeBot.start / _executeGroupTradeCycle ----------------
    startPc,        \* where the loop of start() is: "cycle" | "delay" | "done"
    isRunning,
    traders,        \* wallets.traders
    walletGroups,
    cycles,         \* rounds of group trade cycles started
    groupPc,        \* group -> "buy" | "wait" | "sell" | "done"
    task            \* <<group, index>> -> state of the mapped async function
                    \* of the group's current Promise.all

gVars == <<startPc, isRunning, traders, walletGroups, cycles, groupPc, task>>

VARIABLES
    \* ---- PumpPortalClient: connection and subscriptions -----------------
    ws,                 \* the socket held by the client, 0 for null
    isConnected,
    connectionPromise,  \* the promise held by the client, 0 for null
    subscribedTokens,
    subscribedAccounts,
    sockets,            \* socket -> state of the WebSocket built by the
                        \* executor of promise number socket
    promises,           \* promise -> "pending" | "resolved" | "rejected"
    sentCount,          \* calls of ws.send that delivered a message
    lastMessage,        \* the last message delivered to ws.send
    subscribedOn,       \* socket -> tokens the messages delivered to it have
                        \* subscribed and not unsubscribed
    calls,              \* method calls served
    connectCalls,       \* calls of connect() served
    lossSeen,           \* close() was called or a socket failed or closed
    lastCall            \* the last method call and whether it threw

wsVars == <<ws, isConnected, connectionPromise, subscribedTokens,
            subscribedAccounts, sockets, promises, sentCount, lastMessage,
            subscribedOn, calls, connectCalls, lossSeen, lastCall>>

VARIABLES
    \* ---- VolumeBot (src/volume_bot.js) ----------------------------------
    vbIsRunning,    \* this.isRunning of the VolumeBot
    activeTokens,   \* token -> platform, "none" when the map has no entry
    monitored,      \* tokens whose _monitorTokenTrades has completed and
                    \* whose monitoring has not been cancelled since
    loops,          \* token -> live loops of _startVolumeManagement
    starting,       \* tokens whose startVolumeBot awaits _monitorTokenTrades
    stopping,       \* tokens whose stopVolumeBot awaits the cancellation
    startedOk,      \* tokens whose last startVolumeBot returned normally
                    \* and for which stopVolumeBot was not called since
    vbCalls         \* calls of startVolumeBot and stopVolumeBot so far

vbVars == <<vbIsRunning, activeTokens, monitored, loops, starting, stopping,
            startedOk, vbCalls>>

VARIABLES
    \* ---- SimpleVolumeBot._executeTradeCycle and its caller --------------
    tcPc,           \* "idle" | "buy" | "wait" | "sell" | "done"
    tcType,         \* the tokenType argument
    tcWallet,       \* the wallet argument, 0 for null
    tcBuy,          \* what _executeSingleTrade(..., 'buy') resolved to
    tcSell,         \* what _executeSingleTrade(..., 'sell') resolved to
    tcResult,       \* what _executeTradeCycle resolved to
    tcCalls,        \* cycles the caller has started
    tcTotalTrades,  \* stats.totalTrades of the bot
    callerTotal,    \* stats.total of the caller
    callerSuccessful, \* stats.successful of the caller
    failedCounted   \* cycles with a failed trade that the caller counted
                    \* as successful

tcVars == <<tcPc, tcType, tcWallet, tcBuy, tcSell, tcResult, tcCalls,
            tcTotalTrades, callerTotal, callerSuccessful, failedCounted>>

VARIABLES
    \* ---- SimpleRequestQueue (src/jupiter_portal.js) ---------------------
    queue,          \* this.queue: the operations waiting, oldest first
    processing,     \* this.processing
    chains,         \* the calls of processNext under way: [pc, op] with pc
                    \* "delay" | "operation" | "timer"
    opsAdded,       \* operations handed to add(), numbered in that order
    opsStarted,     \* the operations in the order they were started
    opSettled       \* operation -> how the promise of its add() settled:
                    \* "pending", or the outcome and the operation it is of

qVars == <<queue, processing, chains, opsAdded, opsStarted, opSettled>>

VARIABLES
    \* ---- RaydiumPortalClient.monitorNewTokens / processNewToken ---------
    knownMints,     \* this.knownMints
    rQueue,         \* operations handed to requestQueue.add, not yet started
    rOps,           \* operations started: [tx, i, pc] with i the index in
                    \* postTokenBalances and pc "getTransaction" |
                    \* "getAccountInfo" | "getTokenInfo"
    callbackCalls,  \* mint -> calls of the new-token callback for it
    logsSeen        \* matching log lines handled so far

rVars == <<knownMints, rQueue, rOps, callbackCalls, logsSeen>>

VARIABLES
    \* ---- SimpleVolumeBot.start / stop, several calls --------------------
    sbIsRunning,    \* this.isRunning of the SimpleVolumeBot
    hasTraders,     \* wallets.traders is not empty
    loopPc,         \* call of start() -> "none" | "cycle" | "sleep" |
                    \* "finished" | "threw"
    stopped,        \* call of start() -> stop() was called since its loop
                    \* began
    ranAfterStop,   \* call of start() -> its loop began a trade cycle after
                    \* that stop()
    startCalls      \* calls of start() so far

lVars == <<sbIsRunning, hasTraders, loopPc, stopped, ranAfterStop, startCalls>>

VARIABLES
    \* ---- SimpleVolumeBot: the counters of this.stats --------------------
    sVariant,           \* "multi" (wallet groups) | "single" (one wallet)
    sGroups,            \* walletGroups of start(): the size of each group
    sLoop,              \* start(): "idle" | "loop" | "cycle" | "swap" |
                        \* "delay" | "done"
    sRounds,            \* rounds of the loop begun so far
    sPc,                \* group -> "idle" | "buy" | "wait" | "sell" | "true" |
                        \* "false" (what _executeGroupTradeCycle returned)
    sBuyOk,             \* group -> buyResults.filter(Boolean).length
    sSellOk,            \* group -> sellResults.filter(Boolean).length
    successfulTrades,   \* this.stats.successfulTrades
    totalTrades         \* this.stats.totalTrades

sVars == <<sVariant, sGroups, sLoop, sRounds, sPc, sBuyOk, sSellOk,
           successfulTrades, totalTrades>>

vars == <<netVars, ctVars, jVars, fVars, tVars, bVars, etVars, ppVars, gVars,
          wsVars, vbVars, tcVars, qVars, rVars, lVars, sVars>>

\* what an action of one operation leaves alone
exceptNet == <<ctVars, jVars, fVars, tVars, bVars, etVars, ppVars, gVars,
               wsVars, vbVars, tcVars, qVars, rVars, lVars, sVars>>
exceptCt == <<netVars, jVars, fVars, tVars, bVars, etVars, ppVars, gVars,
              wsVars, vbVars, tcVars, qVars, rVars, lVars, sVars>>
exceptJ == <<netVars, ctVars, fVars, tVars, bVars, etVars, ppVars, gVars,
             wsVars, vbVars, tcVars, qVars, rVars, lVars, sVars>>
exceptF == <<netVars, ctVars, jVars, tVars, bVars, etVars, ppVars, gVars,
             wsVars, vbVars, tcVars, qVars, rVars, lVars, sVars>>
exceptT == <<netVars, ctVars, jVars, fVars, bVars, etVars, ppVars, gVars,
             wsVars, vbVars, tcVars, qVars, rVars, lVars, sVars>>
exceptB == <<netVars, ctVars, jVars, fVars, tVars, etVars, ppVars, gVars,
             wsVars, vbVars, tcVars, qVars, rVars, lVars, sVars>>
exceptEt == <<netVars, ctVars, jVars, fVars, tVars, bVars, ppVars, gVars,
              wsVars, vbVars, tcVars, qVars, rVars, lVars, sVars>>
exceptPp == <<netVars, ctVars, jVars, fVars, tVars, bVars, etVars, gVars,
              wsVars, vbVars, tcVars, qVars, rVars, lVars, sVars>>
exceptG == <<netVars, ctVars, jVars, fVars, tVars, bVars, etVars, ppVars,
             wsVars, vbVars, tcVars, qVars, rVars, lVars, sVars>>
exceptWs == <<netVars, ctVars, jVars, fVars, tVars, bVars, etVars, ppVars,
              gVars, vbVars, tcVars, qVars, rVars, lVars, sVars>>
exceptVb == <<netVars, ctVars, jVars, fVars, tVars, bVars, etVars, ppVars,
              gVars, wsVars, tcVars, qVars, rVars, lVars, sVars>>
exceptTc == <<netVars, ctVars, jVars, fVars, tVars, bVars, etVars, ppVars,
              gVars, wsVars, vbVars, qVars, rVars, lVars, sVars>>
exceptQ == <<netVars, ctVars, jVars, fVars, tVars, bVars, etVars, ppVars,
             gVars, wsVars, vbVars, tcVars, rVars, lVars, sVars>>
exceptR == <<netVars, ctVars, jVars, fVars, tVars, bVars, etVars, ppVars,
             gVars, wsVars, vbVars, tcVars, qVars, lVars, sVars>>
exceptL == <<netVars, ctVars, jVars, fVars, tVars, bVars, etVars, ppVars,
             gVars, wsVars, vbVars, tcVars, qVars, rVars, sVars>>
exceptS == <<netVars, ctVars, jVars, fVars, tVars, bVars, etVars, ppVars,
             gVars, wsVars, vbVars, tcVars, qVars, rVars, lVars>>

(***************************************************************************)
(* The network.                                                            *)
(***************************************************************************)
\* a block is produced
Tick ==
    /\ height < MaxHeight
    /\ height' = height + 1
    /\ UNCHANGED landed

\* the leases getLatestBlockhash may answer with at the current height
Leases ==
    { [blockhash |-> b, lastValidBlockHeight |-> b + Validity] :
        b \in { x \in 0..height : x >= height - MaxLag } }

NoLease == [blockhash |-> -1, lastValidBlockHeight |-> -1]

(***************************************************************************)
(* SimpleVolumeBot._confirmTransaction                                     *)
(***************************************************************************)
ConfirmationStatuses == {"null", "processed", "confirmed", "finalized"}

\* status.value of a getSignatureStatus response
StatusValues == [err : BOOLEAN, confirmationStatus : ConfirmationStatuses]

NoStatus == [err |-> FALSE, confirmationStatus |-> "null"]

\* faulty variant: the confirmation status is looked at before the error
StatusVerdictConfirmFirst(status) ==
    IF status.confirmationStatus \in {"confirmed", "finalized"} THEN "success"
    ELSE IF status.err THEN "failed"
    ELSE "pending"

\* faulty variant: only 'confirmed' is taken as success
StatusVerdictConfirmedOnly(status) ==
    IF status.err THEN "failed"
    ELSE IF status.confirmationStatus = "confirmed" THEN "success"
    ELSE "pending"

\* what one poll makes of a status response
StatusVerdict(status) ==
    IF status.err THEN "failed"
    ELSE IF status.confirmationStatus \in {"confirmed", "finalized"} THEN "success"
    ELSE "pending"

\* SimpleVolumeBot (extends EventEmitter) defines no _checkSolscanStatus
SolscanMethodDefined == FALSE

\* `return await this._checkSolscanStatus(signature)`: calling the undefined
\* member throws a TypeError before any request is made; the outer catch of
\* _confirmTransaction logs it and returns false
CtFallback ==
    /\ fallbackCalls' = fallbackCalls + 1
    /\ IF SolscanMethodDefined
         THEN /\ secondaryQueries' = secondaryQueries + 1
              /\ ctResult' = IF solscanStatus \in {"confirmed", "finalized"}
                               THEN "true" ELSE "false"
         ELSE /\ secondaryQueries' = secondaryQueries
              /\ ctResult' = "false"
    /\ ctPc' = "done"

CtIdle ==
    /\ ctPc = "idle"
    /\ lastValidBlockHeight = -1
    /\ attempts = 0
    /\ rateLimitRetries = 0
    /\ ctResult = "pending"
    /\ history = <<>>
    /\ waits = <<>>
    /\ pollHeight = -1
    /\ lastStatus = NoStatus
    /\ fallbackCalls = 0
    /\ secondaryQueries = 0
    /\ solscanStatus = "notFound"

\* the call has been made and awaits getLatestBlockhash('confirmed')
CtStart ==
    /\ ctPc = "getLatestBlockhash"
    /\ lastValidBlockHeight = -1
    /\ attempts = 0
    /\ rateLimitRetries = 0
    /\ ctResult = "pending"
    /\ history = <<>>
    /\ waits = <<>>
    /\ pollHeight = -1
    /\ lastStatus = NoStatus
    /\ fallbackCalls = 0
    /\ secondaryQueries = 0
    /\ solscanStatus \in {"notFound", "confirmed", "finalized"}

\* getLatestBlockhash settles; the loop is entered and the first status query sent
CtBlockhashOk ==
    /\ ctPc = "getLatestBlockhash"
    /\ \E l \in Leases : lastValidBlockHeight' = l.lastValidBlockHeight
    /\ ctPc' = "getSignatureStatus"
    /\ UNCHANGED <<attempts, rateLimitRetries, ctResult, history, waits,
                   pollHeight, lastStatus, fallbackCalls, secondaryQueries,
                   solscanStatus>>

\* getLatestBlockhash rejects: the outer catch returns false
CtBlockhashFails ==
    /\ ctPc = "getLatestBlockhash"
    /\ ctPc' = "done"
    /\ ctResult' = "false"
    /\ UNCHANGED <<lastValidBlockHeight, attempts, rateLimitRetries, history,
                   waits, pollHeight, lastStatus, fallbackCalls,
                   secondaryQueries, solscanStatus>>

\* getSignatureStatus answers with a status
CtStatus ==
    /\ ctPc = "getSignatureStatus"
    /\ \E status \in StatusValues :
        /\ lastStatus' = status
        /\ history' = Append(history, "status")
        /\ pollHeight' = height
        /\ CASE StatusVerdict(status) = "failed" ->
                  /\ ctPc' = "done"
                  /\ ctResult' = "false"
                  /\ UNCHANGED <<attempts, waits>>
             [] StatusVerdict(status) = "success" ->
                  /\ ctPc' = "done"
                  /\ ctResult' = "true"
                  /\ UNCHANGED <<attempts, waits>>
             [] OTHER ->
                  /\ attempts' = attempts + 1
                  /\ waits' = Append(waits,
                                <<"poll", initialDelay * Pow2(attempts + 1)>>)
                  /\ ctPc' = "delay"
                  /\ UNCHANGED ctResult
    /\ UNCHANGED <<lastValidBlockHeight, rateLimitRetries, fallbackCalls,
                   secondaryQueries, solscanStatus>>

\* the backoff timer fires: the loop condition is evaluated
CtDelayOver ==
    /\ ctPc = "delay"
    /\ IF attempts < maxAttempts
         THEN /\ ctPc' = "getSignatureStatus"
              /\ UNCHANGED <<ctResult, fallbackCalls, secondaryQueries>>
         ELSE CtFallback
    /\ UNCHANGED <<lastValidBlockHeight, attempts, rateLimitRetries, history,
                   waits, pollHeight, lastStatus, solscanStatus>>

\* faulty variant: the budget is compared before the counter is incremented
CtStatus429PostIncrement ==
    /\ ctPc = "getSignatureStatus"
    /\ history' = Append(history, "429")
    /\ pollHeight' = height
    /\ rateLimitRetries' = rateLimitRetries + 1
    /\ IF rateLimitRetries > maxRateLimitRetries
         THEN /\ CtFallback
              /\ UNCHANGED waits
         ELSE /\ waits' = Append(waits,
                    <<"rateLimit", rateLimitBaseDelay * Pow2(rateLimitRetries + 1)>>)
              /\ ctPc' = "rateLimitDelay"
              /\ UNCHANGED <<ctResult, fallbackCalls, secondaryQueries>>
    /\ UNCHANGED <<lastValidBlockHeight, attempts, lastStatus, solscanStatus>>

\* getSignatureStatus rejects with an error whose message includes '429'
CtStatus429 ==
    /\ ctPc = "getSignatureStatus"
    /\ history' = Append(history, "429")
    /\ pollHeight' = height
    /\ rateLimitRetries' = rateLimitRetries + 1
    /\ IF rateLimitRetries + 1 > maxRateLimitRetries
         THEN /\ CtFallback
              /\ UNCHANGED waits
         ELSE /\ waits' = Append(waits,
                    <<"rateLimit", rateLimitBaseDelay * Pow2(rateLimitRetries + 1)>>)
              /\ ctPc' = "rateLimitDelay"
              /\ UNCHANGED <<ctResult, fallbackCalls, secondaryQueries>>
    /\ UNCHANGED <<lastValidBlockHeight, attempts, lastStatus, solscanStatus>>

\* the rate-limit timer fires: `continue` re-evaluates the loop condition
CtRateLimitDelayOver ==
    /\ ctPc = "rateLimitDelay"
    /\ IF attempts < maxAttempts
         THEN /\ ctPc' = "getSignatureStatus"
              /\ UNCHANGED <<ctResult, fallbackCalls, secondaryQueries>>
         ELSE CtFallback
    /\ UNCHANGED <<lastValidBlockHeight, attempts, rateLimitRetries, history,
                   waits, pollHeight, lastStatus, solscanStatus>>

\* getSignatureStatus rejects with any other error: rethrown to the outer catch
CtStatusError ==
    /\ ctPc = "getSignatureStatus"
    /\ history' = Append(history, "error")
    /\ pollHeight' = height
    /\ ctPc' = "done"
    /\ ctResult' = "false"
    /\ UNCHANGED <<lastValidBlockHeight, attempts, rateLimitRetries, waits,
                   lastStatus, fallbackCalls, secondaryQueries, solscanStatus>>

(***************************************************************************)
(* JupiterPortalClient._sendAndConfirmTransactionWithRetry                 *)
(***************************************************************************)
Attempts == 1..defaultMaxAttempts

\* the value of `signature` before any send returned one
NoSignature == <<"undefined", -1>>

NoTx == [recentBlockhash |-> -1, signature |-> NoSignature]

\* currentTransaction.sign([payer]): the signature is a function of the
\* signer and the message, which differs between attempts by its blockhash
Sign(blockhash) == <<"payer", blockhash>>

\* the transaction of an attempt: the original with recentBlockhash replaced,
\* re-signed
SignedTx(blockhash) ==
    [recentBlockhash |-> blockhash, signature |-> Sign(blockhash)]

\* the identifier the network assigns to a submitted transaction: its signature
SignatureOf(tx) == tx.signature

\* an Error object: its message and the transaction signatures the message
\* spells out
NoError == [message |-> "none", signatures |-> {}]

\* an error of the RPC client (request rejected, timeout, connection reset)
RpcError(what) == [message |-> what, signatures |-> {}]

JTerminal == {"fetchFailed", "sendFailed", "confirmed", "expired", "error"}

JIdle ==
    /\ jPc = "idle"
    /\ jMaxAttempts = 0
    /\ jAttempt = 0
    /\ jFetched = [a \in Attempts |-> NoLease]
    /\ jLease = [a \in Attempts |-> NoLease]
    /\ jSerialized = [a \in Attempts |-> NoTx]
    /\ jSignature = NoSignature
    /\ jAborted = [a \in Attempts |-> FALSE]
    /\ jRs = [a \in Attempts |-> "none"]
    /\ jSends = {}
    /\ jOutcome = [a \in Attempts |-> "none"]
    /\ jExpired = {}
    /\ jResult = "pending"
    /\ jConfirmErr = FALSE
    /\ jError = NoError

\* the call has been made: with maxAttempts >= 1 it awaits the first
\* getLatestBlockhash('finalized'); with maxAttempts = 0 the loop body never
\* runs and `throw lastError` ends the call
JStart ==
    /\ jMaxAttempts \in 0..defaultMaxAttempts
    /\ jPc = IF jMaxAttempts >= 1 THEN "getLatestBlockhash" ELSE "done"
    /\ jResult = IF jMaxAttempts >= 1 THEN "pending" ELSE "threw"
    /\ jAttempt = 1
    /\ jFetched = [a \in Attempts |-> NoLease]
    /\ jLease = [a \in Attempts |-> NoLease]
    /\ jSerialized = [a \in Attempts |-> NoTx]
    /\ jSignature = NoSignature
    /\ jAborted = [a \in Attempts |-> FALSE]
    /\ jRs = [a \in Attempts |-> "none"]
    /\ jSends = {}
    /\ jOutcome = [a \in Attempts |-> "none"]
    /\ jExpired = {}
    /\ jConfirmErr = FALSE
    /\ jError = IF jMaxAttempts >= 1 THEN NoError
                                   ELSE [message |-> "undefined", signatures |-> {}]

\* the outer catch: the last attempt rethrows, any other waits before the next
JCatch(error) ==
    IF jAttempt = jMaxAttempts
      THEN /\ jPc' = "done"
           /\ jResult' = "threw"
           /\ jError' = [message |-> "All attempts failed. Last error: "
                                       \o error.message,
                         signatures |-> error.signatures]
      ELSE /\ jPc' = "backoff"
           /\ UNCHANGED <<jResult, jError>>

\* faulty variant: the lease of the first attempt is kept for the later attempts
JBlockhashOkReused ==
    /\ jPc = "getLatestBlockhash"
    /\ \E l \in Leases :
        LET used == IF jAttempt = 1 THEN l ELSE jLease[1]
            tx == SignedTx(used.blockhash)
        IN  /\ jFetched' = [jFetched EXCEPT ![jAttempt] = l]
            /\ jLease' = [jLease EXCEPT ![jAttempt] = used]
            /\ jSerialized' = [jSerialized EXCEPT ![jAttempt] = tx]
            /\ jSends' = jSends \cup
                  {[attempt |-> jAttempt, kind |-> "send", tx |-> tx]}
    /\ jOutcome' = [jOutcome EXCEPT ![jAttempt] = "sending"]
    /\ jPc' = "sendRawTransaction"
    /\ UNCHANGED <<jMaxAttempts, jAttempt, jSignature, jAborted, jRs,
                   jExpired, jResult, jConfirmErr>>
    /\ UNCHANGED jError

\* getLatestBlockhash settles: the copy of the transaction gets the blockhash,
\* is re-signed and serialized, the controller is created and the first
\* sendRawTransaction is started
JBlockhashOk ==
    /\ jPc = "getLatestBlockhash"
    /\ \E l \in Leases :
        LET tx == SignedTx(l.blockhash)
        IN  /\ jFetched' = [jFetched EXCEPT ![jAttempt] = l]
            /\ jLease' = [jLease EXCEPT ![jAttempt] = l]
            /\ jSerialized' = [jSerialized EXCEPT ![jAttempt] = tx]
            /\ jSends' = jSends \cup
                  {[attempt |-> jAttempt, kind |-> "send", tx |-> tx]}
    /\ jOutcome' = [jOutcome EXCEPT ![jAttempt] = "sending"]
    /\ jPc' = "sendRawTransaction"
    /\ UNCHANGED <<jMaxAttempts, jAttempt, jSignature, jAborted, jRs,
                   jExpired, jResult, jConfirmErr>>
    /\ UNCHANGED jError

\* getLatestBlockhash rejects: the outer catch takes over
JBlockhashFails ==
    /\ jPc = "getLatestBlockhash"
    /\ jOutcome' = [jOutcome EXCEPT ![jAttempt] = "fetchFailed"]
    /\ JCatch(RpcError("failed to get recent blockhash"))
    /\ UNCHANGED <<jMaxAttempts, jAttempt, jFetched, jLease, jSerialized, jSignature,
                   jAborted, jRs, jSends, jExpired, jConfirmErr>>

\* the first send settles with the signature: the resender is started (it
\* runs up to its first sleep) and confirmTransaction is awaited
JSendOk ==
    /\ jPc = "sendRawTransaction"
    /\ jSignature' = SignatureOf(jSerialized[jAttempt])
    /\ jRs' = [jRs EXCEPT ![jAttempt] = "sleeping"]
    /\ jOutcome' = [jOutcome EXCEPT ![jAttempt] = "confirming"]
    /\ jPc' = "confirmTransaction"
    /\ UNCHANGED <<jMaxAttempts, jAttempt, jFetched, jLease, jSerialized, jAborted,
                   jSends, jExpired, jResult, jConfirmErr>>
    /\ UNCHANGED jError

\* the first send rejects: the inner catch aborts and rethrows
JSendFails ==
    /\ jPc = "sendRawTransaction"
    /\ jAborted' = [jAborted EXCEPT ![jAttempt] = TRUE]
    /\ jOutcome' = [jOutcome EXCEPT ![jAttempt] = "sendFailed"]
    /\ JCatch(RpcError("failed to send transaction"))
    /\ UNCHANGED <<jMaxAttempts, jAttempt, jFetched, jLease, jSerialized, jSignature,
                   jRs, jSends, jExpired, jConfirmErr>>

\* faulty variant: the confirmed path returns without controller.abort()
JConfirmResolvesNoAbort ==
    /\ jPc = "confirmTransaction"
    /\ \E err \in BOOLEAN : jConfirmErr' = err
    /\ jOutcome' = [jOutcome EXCEPT ![jAttempt] = "confirmed"]
    /\ jPc' = "done"
    /\ jResult' = "returned"
    /\ UNCHANGED <<jMaxAttempts, jAttempt, jFetched, jLease, jSerialized, jSignature,
                   jAborted, jRs, jSends, jExpired>>
    /\ UNCHANGED jError

\* confirmTransaction resolves (the transaction reached 'confirmed', with or
\* without an execution error in value.err): abort, return signature
JConfirmResolves ==
    /\ jPc = "confirmTransaction"
    /\ \E err \in BOOLEAN : jConfirmErr' = err
    /\ jAborted' = [jAborted EXCEPT ![jAttempt] = TRUE]
    /\ jOutcome' = [jOutcome EXCEPT ![jAttempt] = "confirmed"]
    /\ jPc' = "done"
    /\ jResult' = "returned"
    /\ UNCHANGED <<jMaxAttempts, jAttempt, jFetched, jLease, jSerialized, jSignature,
                   jRs, jSends, jExpired>>
    /\ UNCHANGED jError

\* confirmTransaction rejects because the block height exceeded the lease's
\* lastValidBlockHeight: abort, 'Transaction expired...' to the outer catch
JConfirmExpired ==
    /\ jPc = "confirmTransaction"
    /\ height > jLease[jAttempt].lastValidBlockHeight
    /\ jExpired' = jExpired \cup {jLease[jAttempt]}
    /\ jAborted' = [jAborted EXCEPT ![jAttempt] = TRUE]
    /\ jOutcome' = [jOutcome EXCEPT ![jAttempt] = "expired"]
    /\ JCatch([message |-> "Transaction expired, retrying with new blockhash",
               signatures |-> {}])
    /\ UNCHANGED <<jMaxAttempts, jAttempt, jFetched, jLease, jSerialized, jSignature,
                   jRs, jSends, jConfirmErr>>

\* confirmTransaction rejects with any other error, whose message may or may
\* not spell out the signature: abort, rethrow
JConfirmError ==
    /\ jPc = "confirmTransaction"
    /\ jAborted' = [jAborted EXCEPT ![jAttempt] = TRUE]
    /\ jOutcome' = [jOutcome EXCEPT ![jAttempt] = "error"]
    /\ \E sigs \in {{}, {jSignature}} :
          JCatch([message |-> "confirmation failed", signatures |-> sigs])
    /\ UNCHANGED <<jMaxAttempts, jAttempt, jFetched, jLease, jSerialized, jSignature,
                   jRs, jSends, jExpired, jConfirmErr>>

\* faulty variant: the next attempt is started without waiting for the confirmation
\* of the current one
JBackoffOverOrEarly ==
    /\ jPc \in {"backoff", "confirmTransaction"}
    /\ jAttempt < jMaxAttempts
    /\ jAttempt' = jAttempt + 1
    /\ jPc' = "getLatestBlockhash"
    /\ UNCHANGED <<jMaxAttempts, jFetched, jLease, jSerialized, jSignature, jAborted,
                   jRs, jSends, jOutcome, jExpired, jResult, jConfirmErr>>
    /\ UNCHANGED jError

\* the backoff timer fires: attempt++ and the next iteration starts
JBackoffOver ==
    /\ jPc = "backoff"
    /\ jAttempt' = jAttempt + 1
    /\ jPc' = "getLatestBlockhash"
    /\ UNCHANGED <<jMaxAttempts, jFetched, jLease, jSerialized, jSignature, jAborted,
                   jRs, jSends, jOutcome, jExpired, jResult, jConfirmErr>>
    /\ UNCHANGED jError

\* ---- abortableResender of attempt a ------------------------------------
\* faulty variant: the resender builds its payload anew on the newest blockhash
ResendPayloadResigned(a) == SignedTx(height)

\* the bytes a resend sends: the attempt's serializedTransaction
ResendPayload(a) == jSerialized[a]

\* faulty variant: the loop never looks at the signal
ResenderSeesAbortNever(a) == FALSE

\* faulty variant: one signal variable shared by all attempts
ResenderSeesAbortShared(a) == jAborted[jAttempt]

\* `if (abortSignal.aborted) return;` of the attempt's own controller
ResenderSeesAbort(a) == jAborted[a]

\* the 2 s timer of the resender fires: it returns if the signal is set,
\* otherwise it starts a resend
JResenderWakes(a) ==
    /\ jRs[a] = "sleeping"
    /\ IF ResenderSeesAbort(a)
         THEN /\ jRs' = [jRs EXCEPT ![a] = "exited"]
              /\ UNCHANGED jSends
         ELSE /\ jRs' = [jRs EXCEPT ![a] = "sending"]
              /\ jSends' = jSends \cup
                    {[attempt |-> a, kind |-> "resend", tx |-> ResendPayload(a)]}
    /\ UNCHANGED <<jPc, jMaxAttempts, jAttempt, jFetched, jLease, jSerialized,
                   jSignature, jAborted, jOutcome, jExpired, jResult,
                   jConfirmErr>>
    /\ UNCHANGED jError

\* the resend settles (a rejection is logged and swallowed): next sleep
JResendSettles(a) ==
    /\ jRs[a] = "sending"
    /\ jRs' = [jRs EXCEPT ![a] = "sleeping"]
    /\ UNCHANGED <<jPc, jMaxAttempts, jAttempt, jFetched, jLease, jSerialized,
                   jSignature, jAborted, jSends, jOutcome, jExpired, jResult,
                   jConfirmErr>>
    /\ UNCHANGED jError

(***************************************************************************)
(* SimpleVolumeBot.fundTraderWallet                                        *)
(***************************************************************************)
FundAttempts == 1..fundMaxRetries

FTerminal == {"sendFailed", "confirmed", "timedOut"}

\* how long a status request of fundTraderWallet may take to settle
FundLatencies == { i * fundPollInterval : i \in 0..MaxLatency }

\* the transfers of fundTraderWallet the network has received
FundSubmitted == { fSends[i] : i \in 1..Len(fSends) }

\* the network executes a received transfer, which it does only while the
\* block height has not passed the last valid height of the transfer's
\* blockhash; a transfer (identified by its signature) is executed once
NetLands ==
    /\ \E s \in FundSubmitted \ landed :
          /\ height <= s[2] + Validity
          /\ landed' = landed \cup {s}
    /\ UNCHANGED height

FIdle ==
    /\ fPc = "idle"
    /\ fAttempt = 0
    /\ fSignature = NoSignature
    /\ fElapsed = 0
    /\ fSends = <<>>
    /\ fOutcome = [a \in FundAttempts |-> "none"]
    /\ fWaits = <<>>
    /\ fResult = "pending"
    /\ fErrSeen = FALSE
    /\ fError = NoError

\* the call has been made: the first transfer is built and sendTransaction
\* awaited
FStart ==
    /\ fPc = "sendTransaction"
    /\ fAttempt = 1
    /\ fSignature = NoSignature
    /\ fElapsed = 0
    /\ fSends = <<>>
    /\ fOutcome = [a \in FundAttempts |-> IF a = 1 THEN "sending" ELSE "none"]
    /\ fWaits = <<>>
    /\ fResult = "pending"
    /\ fErrSeen = FALSE
    /\ fError = NoError

\* faulty variant: the last-attempt test is off by one
FRetryOrThrowOffByOne(error) ==
    IF fAttempt = fundMaxRetries + 1
      THEN /\ fPc' = "done"
           /\ fResult' = "threw"
           /\ fError' = error
           /\ UNCHANGED fWaits
      ELSE /\ fPc' = "retryWait"
           /\ fWaits' = Append(fWaits, fAttempt * fundRetryDelay)
           /\ UNCHANGED <<fResult, fError>>

\* the outer catch, and the `if (!confirmed)` branch after a timed-out loop:
\* the last attempt throws (the error caught, or the time-out error that
\* passes through the outer catch), any other waits attempt * 2000 ms
FRetryOrThrow(error) ==
    IF fAttempt = fundMaxRetries
      THEN /\ fPc' = "done"
           /\ fResult' = "threw"
           /\ fError' = error
           /\ UNCHANGED fWaits
      ELSE /\ fPc' = "retryWait"
           /\ fWaits' = Append(fWaits, fAttempt * fundRetryDelay)
           /\ UNCHANGED <<fResult, fError>>

\* the condition of the polling loop, evaluated with e ms elapsed: another
\* status request, or the attempt has timed out
FLoop(e) ==
    IF e < confirmationTimeout
      THEN /\ fPc' = "getSignatureStatus"
           /\ UNCHANGED <<fOutcome, fWaits, fResult, fError>>
      ELSE /\ fOutcome' = [fOutcome EXCEPT ![fAttempt] = "timedOut"]
           /\ FRetryOrThrow([message |->
                               "Transaction confirmation timed out after 3 attempts",
                             signatures |-> {}])

\* sendTransaction settles with the signature (the transfer is signed over a
\* recent blockhash); startTime is taken and the first status request sent
FSendOk ==
    /\ fPc = "sendTransaction"
    /\ \E l \in Leases :
        /\ fSignature' = Sign(l.blockhash)
        /\ fSends' = Append(fSends, Sign(l.blockhash))
    /\ fElapsed' = 0
    /\ fOutcome' = [fOutcome EXCEPT ![fAttempt] = "confirming"]
    /\ fPc' = "getSignatureStatus"
    /\ UNCHANGED <<fAttempt, fWaits, fResult, fErrSeen, fError>>

\* sendTransaction rejects: the outer catch
FSendFails ==
    /\ fPc = "sendTransaction"
    /\ fOutcome' = [fOutcome EXCEPT ![fAttempt] = "sendFailed"]
    /\ FRetryOrThrow(RpcError("failed to send transaction"))
    /\ UNCHANGED <<fAttempt, fSignature, fElapsed, fSends, fErrSeen>>

\* getSignatureStatus answers: 'confirmed'/'finalized' returns the signature
\* (whatever err is); an err is thrown into the inner catch, which logs it
\* and goes on with the loop at once; anything else waits 2 s.
\* (The node reports 'confirmed'/'finalized' without err only for a transfer
\* the network has executed, and an err for none it has.)
FStatus ==
    /\ fPc = "getSignatureStatus"
    /\ \E status \in StatusValues, lat \in FundLatencies :
        /\ StatusVerdict(status) = "success" => fSignature \in landed
        /\ status.err => fSignature \notin landed
        /\ fElapsed' = fElapsed + lat
        /\ IF status.confirmationStatus \in {"confirmed", "finalized"}
             THEN /\ fPc' = "done"
                  /\ fResult' = "returned"
                  /\ fOutcome' = [fOutcome EXCEPT ![fAttempt] = "confirmed"]
                  /\ UNCHANGED <<fWaits, fErrSeen, fError>>
             ELSE IF status.err
               THEN /\ fErrSeen' = TRUE
                    /\ FLoop(fElapsed + lat)
               ELSE /\ fPc' = "pollWait"
                    /\ UNCHANGED <<fOutcome, fWaits, fResult, fErrSeen,
                                   fError>>
    /\ UNCHANGED <<fAttempt, fSignature, fSends>>

\* getSignatureStatus rejects: the inner catch logs it and the loop goes on
FStatusError ==
    /\ fPc = "getSignatureStatus"
    /\ \E lat \in FundLatencies :
        /\ fElapsed' = fElapsed + lat
        /\ FLoop(fElapsed + lat)
    /\ UNCHANGED <<fAttempt, fSignature, fSends, fErrSeen>>

\* the 2 s wait between two status requests is over
FPollWaitOver ==
    /\ fPc = "pollWait"
    /\ fElapsed' = fElapsed + fundPollInterval
    /\ FLoop(fElapsed + fundPollInterval)
    /\ UNCHANGED <<fAttempt, fSignature, fSends, fErrSeen>>

\* the inter-attempt delay is over: attempt++; while attempt <= maxRetries the
\* next transfer is built and sent, else the function ends without a value
FRetryWaitOver ==
    /\ fPc = "retryWait"
    /\ fAttempt' = fAttempt + 1
    /\ IF fAttempt + 1 <= fundMaxRetries
         THEN /\ fOutcome' = [fOutcome EXCEPT ![fAttempt + 1] = "sending"]
              /\ fPc' = "sendTransaction"
              /\ UNCHANGED fResult
         ELSE /\ fPc' = "done"
              /\ fResult' = "undefined"
              /\ UNCHANGED fOutcome
    /\ UNCHANGED <<fSignature, fElapsed, fSends, fWaits, fErrSeen, fError>>

(***************************************************************************)
(* transferWithRetries                                                     *)
(***************************************************************************)
TransferAttempts == 1..transferMaxRetries

TIdle ==
    /\ tPc = "idle"
    /\ tMaxRetries = 0
    /\ tAttempt = 0
    /\ tSubmitted = 0
    /\ tOutcome = [a \in TransferAttempts |-> "none"]
    /\ tResult = "pending"
    /\ tSignature = NoSignature
    /\ tError = NoError

\* the call has been made: with maxRetries >= 1 the first iteration awaits the
\* token accounts; with maxRetries = 0 the loop never runs and the function
\* returns undefined
TStart ==
    /\ tMaxRetries \in 0..transferMaxRetries
    /\ tPc = IF tMaxRetries >= 1 THEN "getAccount" ELSE "done"
    /\ tResult = IF tMaxRetries >= 1 THEN "pending" ELSE "undefined"
    /\ tAttempt = IF tMaxRetries >= 1 THEN 1 ELSE 0
    /\ tSubmitted = 0
    /\ tOutcome = [a \in TransferAttempts |->
                     IF a = 1 /\ tMaxRetries >= 1 THEN "running" ELSE "none"]
    /\ tSignature = NoSignature
    /\ tError = NoError

\* the catch block: wait delayMs while attempts remain, else throw
TCatch ==
    /\ tOutcome' = [tOutcome EXCEPT ![tAttempt] = "failed"]
    /\ IF tAttempt < tMaxRetries
         THEN tPc' = "retryWait" /\ UNCHANGED <<tResult, tError>>
         ELSE /\ tPc' = "done"
              /\ tResult' = "threw"
              /\ tError' = [message |-> "All transfer attempts failed.",
                            signatures |-> {}]

\* both token addresses are derived and the destination account exists
TGetAccountOk ==
    /\ tPc = "getAccount"
    /\ tPc' = "transfer"
    /\ UNCHANGED <<tMaxRetries, tAttempt, tSubmitted, tOutcome, tResult,
                   tSignature, tError>>

\* the destination token account does not exist (or the lookup fails)
TGetAccountFails ==
    /\ tPc = "getAccount"
    /\ TCatch
    /\ UNCHANGED <<tMaxRetries, tAttempt, tSubmitted, tSignature>>

\* transfer() submitted the transaction and resolves with its signature
TTransferOk ==
    /\ tPc = "transfer"
    /\ tSubmitted' = tSubmitted + 1
    /\ tSignature' = <<"fromOwner", tAttempt>>
    /\ tPc' = "getBlockHeight"
    /\ UNCHANGED <<tMaxRetries, tAttempt, tOutcome, tResult, tError>>

\* transfer() rejects, before or after it submitted the transaction
TTransferFails ==
    /\ tPc = "transfer"
    /\ \E submitted \in BOOLEAN :
        tSubmitted' = IF submitted THEN tSubmitted + 1 ELSE tSubmitted
    /\ TCatch
    /\ UNCHANGED <<tMaxRetries, tAttempt, tSignature>>

\* getBlockHeight and getLatestBlockhash settle; confirmTransaction is awaited
TStrategyOk ==
    /\ tPc = "getBlockHeight"
    /\ tPc' = "confirmTransaction"
    /\ UNCHANGED <<tMaxRetries, tAttempt, tSubmitted, tOutcome, tResult,
                   tSignature, tError>>

\* getBlockHeight or getLatestBlockhash rejects
TStrategyFails ==
    /\ tPc = "getBlockHeight"
    /\ TCatch
    /\ UNCHANGED <<tMaxRetries, tAttempt, tSubmitted, tSignature>>

\* confirmTransaction resolves: without value.err the signature is returned,
\* with it 'Transfer failed' is thrown into the catch block
TConfirmResolves ==
    /\ tPc = "confirmTransaction"
    /\ \E err \in BOOLEAN :
        IF err
          THEN TCatch
          ELSE /\ tOutcome' = [tOutcome EXCEPT ![tAttempt] = "confirmed"]
               /\ tPc' = "done"
               /\ tResult' = "returned"
               /\ UNCHANGED tError
    /\ UNCHANGED <<tMaxRetries, tAttempt, tSubmitted, tSignature>>

\* confirmTransaction rejects (expired, transport error)
TConfirmFails ==
    /\ tPc = "confirmTransaction"
    /\ TCatch
    /\ UNCHANGED <<tMaxRetries, tAttempt, tSubmitted, tSignature>>

\* delayMs is over: the loop condition holds, attempt++
TRetryWaitOver ==
    /\ tPc = "retryWait"
    /\ tAttempt' = tAttempt + 1
    /\ tOutcome' = [tOutcome EXCEPT ![tAttempt + 1] = "running"]
    /\ tPc' = "getAccount"
    /\ UNCHANGED <<tMaxRetries, tSubmitted, tResult, tSignature, tError>>

(***************************************************************************)
(* The per-group buy retry loop of main, with waitForBundleConfirmation    *)
(***************************************************************************)
\* how long a getBundleStatuses request may take to settle
BundleLatencies == { i * bundlePollInterval : i \in 0..MaxLatency }

\* confirmation_status of the bundle's entry; "none": no entry in the answer
BundleStatuses == {"none", "processed", "confirmed", "finalized"}

\* the bundle id the relay returns for the bundle of a try
BundleIdOf(try) == <<"bundle", try>>

NoBundle == <<"bundle", 0>>

NoReport == [bundleId |-> NoBundle, status |-> "none"]

\* faulty variant: the id of the first try's bundle is kept for the later tries
StatusRequestIdOfFirstTry(bundleId) == BundleIdOf(1)

\* the bundle id waitForBundleConfirmation puts into a getBundleStatuses
\* request: its parameter
StatusRequestId(bundleId) == bundleId

BIdle ==
    /\ bPc = "idle"
    /\ currentTry = 0
    /\ bBundleId = NoBundle
    /\ bElapsed = 0
    /\ bSubmitted = 0
    /\ bResult = "pending"
    /\ bQueried = NoBundle
    /\ bStatusSeen = "none"
    /\ bReport = NoReport

\* the loop is entered: currentTry++ and the trade-local request is awaited
BStart ==
    /\ bPc = "tradeLocal"
    /\ currentTry = 1
    /\ bBundleId = NoBundle
    /\ bElapsed = 0
    /\ bSubmitted = 0
    /\ bResult = "pending"
    /\ bQueried = NoBundle
    /\ bStatusSeen = "none"
    /\ bReport = NoReport

\* the catch block of a try: wait 1 s while tries remain; after the last try
\* the loop ends and 'All buy attempts failed' is thrown
BCatch ==
    IF currentTry < buyMaxRetries
      THEN bPc' = "retryWait" /\ UNCHANGED bResult
      ELSE bPc' = "done" /\ bResult' = "threw"

\* trade-local answers 200 with one transaction per wallet: each is signed
\* and the bundle is posted to the relay
BTradeLocalOk ==
    /\ bPc = "tradeLocal"
    /\ bPc' = "sendBundle"
    /\ UNCHANGED <<currentTry, bBundleId, bElapsed, bSubmitted, bResult,
                   bQueried, bStatusSeen, bReport>>

\* trade-local fails (rejects, status other than 200, unexpected shape)
BTradeLocalFails ==
    /\ bPc = "tradeLocal"
    /\ BCatch
    /\ UNCHANGED <<currentTry, bBundleId, bElapsed, bSubmitted, bQueried,
                   bStatusSeen, bReport>>

\* the relay accepts the bundle and returns its id;
\* waitForBundleConfirmation starts and sends its first status request
BSendBundleOk ==
    /\ bPc = "sendBundle"
    /\ bBundleId' = BundleIdOf(currentTry)
    /\ bSubmitted' = bSubmitted + 1
    /\ bElapsed' = 0
    /\ bQueried' = StatusRequestId(BundleIdOf(currentTry))
    /\ bStatusSeen' = "none"
    /\ bPc' = "getBundleStatuses"
    /\ UNCHANGED <<currentTry, bResult, bReport>>

\* the relay call fails (rejects, not ok, no result field)
BSendBundleFails ==
    /\ bPc = "sendBundle"
    /\ BCatch
    /\ UNCHANGED <<currentTry, bBundleId, bElapsed, bSubmitted, bQueried,
                   bStatusSeen, bReport>>

\* faulty variant: the status of any entry found is returned
WaitReturnsAnyEntry(st) == st \notin {"none", "error"}

\* waitForBundleConfirmation returns the status st of a settled request
WaitReturns(st) == st \in {"confirmed", "finalized"}

\* a status request of waitForBundleConfirmation settles: 'confirmed' or
\* 'finalized' is returned, and main returns its report for these two and
\* throws 'Bundle status: ...' for any other returned value; anything not
\* returned (no entry, another status, a rejected request) waits
\* pollInterval
BStatus ==
    /\ bPc = "getBundleStatuses"
    /\ \E st \in BundleStatuses \cup {"error"}, lat \in BundleLatencies :
        /\ bElapsed' = bElapsed + lat
        /\ bStatusSeen' = st
        /\ IF WaitReturns(st)
             THEN IF st \in {"confirmed", "finalized"}
                    THEN /\ bPc' = "done"
                         /\ bResult' = "returned"
                         /\ bReport' = [bundleId |-> bBundleId, status |-> st]
                    ELSE /\ BCatch
                         /\ UNCHANGED bReport
             ELSE /\ bPc' = "bundlePollWait"
                  /\ UNCHANGED <<bResult, bReport>>
    /\ UNCHANGED <<currentTry, bBundleId, bSubmitted, bQueried>>

\* pollInterval is over: another status request before the deadline, else the
\* timeout error is thrown into the catch block of the try
BPollWaitOver ==
    /\ bPc = "bundlePollWait"
    /\ bElapsed' = bElapsed + bundlePollInterval
    /\ IF bElapsed + bundlePollInterval < bundleTimeout
         THEN /\ bPc' = "getBundleStatuses"
              /\ bQueried' = StatusRequestId(bBundleId)
              /\ UNCHANGED bResult
         ELSE /\ BCatch
              /\ UNCHANGED bQueried
    /\ UNCHANGED <<currentTry, bBundleId, bSubmitted, bStatusSeen, bReport>>

\* the 1 s wait is over: the loop condition holds, currentTry++
BRetryWaitOver ==
    /\ bPc = "retryWait"
    /\ currentTry' = currentTry + 1
    /\ bPc' = "tradeLocal"
    /\ UNCHANGED <<bBundleId, bElapsed, bSubmitted, bResult, bQueried,
                   bStatusSeen, bReport>>

(***************************************************************************)
(* PumpPortalSwapTester.executeTrade                                       *)
(***************************************************************************)
EtIdle ==
    /\ etPc = "idle"
    /\ transaction = NoTx
    /\ retries = 0
    /\ txid = NoSignature
    /\ etSends = <<>>
    /\ etResult = "pending"

\* the call has been made and awaits the answer of the trade endpoint
EtStart ==
    /\ etPc = "fetch"
    /\ transaction = NoTx
    /\ retries = 0
    /\ txid = NoSignature
    /\ etSends = <<>>
    /\ etResult = "pending"

\* the catch block of the send loop: retries--, the last failure is rethrown,
\* any other waits 2 s
EtCatch ==
    /\ retries' = retries - 1
    /\ IF retries - 1 = 0
         THEN etPc' = "done" /\ etResult' = "threw"
         ELSE etPc' = "retryWait" /\ UNCHANGED etResult

\* `await this.connection.sendTransaction(transaction, ...)` is called with
\* the one transaction object of the call
EtSend ==
    etSends' = Append(etSends, [tx |-> transaction, height |-> height])

\* the trade endpoint answers ok with the bytes of a transaction built on a
\* recent blockhash: it is deserialized and signed, and the simulation awaited
EtFetchOk ==
    /\ etPc = "fetch"
    /\ \E l \in Leases : transaction' = SignedTx(l.blockhash)
    /\ etPc' = "simulate"
    /\ UNCHANGED <<retries, txid, etSends, etResult>>

\* the trade endpoint rejects or answers not ok: the call throws
EtFetchFails ==
    /\ etPc = "fetch"
    /\ etPc' = "done"
    /\ etResult' = "threw"
    /\ UNCHANGED <<transaction, retries, txid, etSends>>

\* the simulation reports no error: retries = 3 and the first send is made
EtSimulateOk ==
    /\ etPc = "simulate"
    /\ retries' = 3
    /\ EtSend
    /\ etPc' = "sendTransaction"
    /\ UNCHANGED <<transaction, txid, etResult>>

\* the simulation rejects or reports an error: the call throws
EtSimulateFails ==
    /\ etPc = "simulate"
    /\ etPc' = "done"
    /\ etResult' = "threw"
    /\ UNCHANGED <<transaction, retries, txid, etSends>>

\* sendTransaction resolves with the signature; confirmTransaction is awaited
EtSendOk ==
    /\ etPc = "sendTransaction"
    /\ txid' = SignatureOf(transaction)
    /\ etPc' = "confirmTransaction"
    /\ UNCHANGED <<transaction, retries, etSends, etResult>>

\* sendTransaction rejects
EtSendFails ==
    /\ etPc = "sendTransaction"
    /\ EtCatch
    /\ UNCHANGED <<transaction, txid, etSends>>

\* confirmTransaction resolves: with value.err 'Transaction failed' is thrown
\* into the catch block, without it txid is returned
EtConfirmResolves ==
    /\ etPc = "confirmTransaction"
    /\ \E err \in BOOLEAN :
         IF err
           THEN EtCatch
           ELSE /\ etPc' = "done"
                /\ etResult' = "returned"
                /\ UNCHANGED retries
    /\ UNCHANGED <<transaction, txid, etSends>>

\* confirmTransaction rejects: the transaction was not confirmed in time (its
\* blockhash may have expired meanwhile), or a transport error
EtConfirmFails ==
    /\ etPc = "confirmTransaction"
    /\ EtCatch
    /\ UNCHANGED <<transaction, txid, etSends>>

\* the 2 s wait is over: retries > 0, the next sendTransaction is made
EtRetryWaitOver ==
    /\ etPc = "retryWait"
    /\ EtSend
    /\ etPc' = "sendTransaction"
    /\ UNCHANGED <<transaction, retries, txid, etResult>>

(***************************************************************************)
(* PumpPortalClient.executeTrade and executeTradeBundle                    *)
(***************************************************************************)
PpIdle ==
    /\ ppPc = "idle"
    /\ ppOp = "none"
    /\ signerKeyPair = FALSE
    /\ bundleSigners = [i \in 0..(maxBundleSize - 1) |-> FALSE]
    /\ bundleLen = 0
    /\ ppCalls = <<>>
    /\ relayAnswer = "none"
    /\ ppResult = "pending"
    /\ ppError = "none"

\* executeTradeBundle: `!Array.isArray(bundleParams) || length === 0 ||
\* length > 5`
BundleParamsInvalid == bundleLen = 0 \/ bundleLen > maxBundleSize

\* one of the two calls is about to be made, on some configuration
PpStart ==
    /\ ppOp \in {"executeTrade", "executeTradeBundle"}
    /\ signerKeyPair \in BOOLEAN
    /\ bundleSigners \in [0..(maxBundleSize - 1) -> BOOLEAN]
    /\ bundleLen \in 0..(maxBundleSize + 1)
    /\ ppOp = "executeTrade" =>
          /\ bundleLen = 0
          /\ bundleSigners = [i \in 0..(maxBundleSize - 1) |-> FALSE]
    /\ ppOp = "executeTradeBundle" => signerKeyPair = FALSE
    /\ relayAnswer = "none"
    /\ ppPc = "called"
    /\ ppCalls = <<>>
    /\ ppResult = "pending"
    /\ ppError = "none"

\* the catch block of either call: log and rethrow
PpThrow(message) ==
    /\ ppPc' = "done"
    /\ ppResult' = "threw"
    /\ ppError' = message

\* the call runs up to its first await: executeTrade posts to the trade
\* endpoint at once; executeTradeBundle validates bundleParams first and
\* throws, or posts to the trade endpoint
PpCall ==
    /\ ppPc = "called"
    /\ IF ppOp = "executeTradeBundle" /\ BundleParamsInvalid
         THEN /\ PpThrow("Bundle must contain between 1 and 5 transactions")
              /\ UNCHANGED ppCalls
         ELSE /\ ppPc' = "tradeLocal"
              /\ ppCalls' = <<"trade">>
              /\ UNCHANGED <<ppResult, ppError>>
    /\ UNCHANGED <<ppOp, signerKeyPair, bundleSigners, bundleLen, relayAnswer>>

\* the transactions of the bundle for which no signer is configured
UnsignedIndexes == { i \in 0..(bundleLen - 1) : ~bundleSigners[i] }

\* the trade endpoint answers 200.  executeTrade: the transaction is
\* deserialized, the signer is looked up, the transaction signed and sent to
\* the RPC node.  executeTradeBundle: each transaction is deserialized and
\* its signer looked up in turn, then the bundle is posted to the relay.
PpTradeOk ==
    /\ ppPc = "tradeLocal"
    /\ IF ppOp = "executeTrade"
         THEN IF ~signerKeyPair
                THEN /\ PpThrow("Signer keypair not configured")
                     /\ UNCHANGED ppCalls
                ELSE /\ ppPc' = "sendTransaction"
                     /\ ppCalls' = Append(ppCalls, "rpc")
                     /\ UNCHANGED <<ppResult, ppError>>
         ELSE IF UnsignedIndexes # {}
                THEN /\ PpThrow("No signer configured for transaction")
                     /\ UNCHANGED ppCalls
                ELSE /\ ppPc' = "sendBundle"
                     /\ ppCalls' = Append(ppCalls, "relay")
                     /\ UNCHANGED <<ppResult, ppError>>
    /\ UNCHANGED <<ppOp, signerKeyPair, bundleSigners, bundleLen, relayAnswer>>

\* the trade endpoint rejects or answers with a status other than 200
PpTradeFails ==
    /\ ppPc = "tradeLocal"
    /\ PpThrow("Trade request failed")
    /\ UNCHANGED <<ppOp, signerKeyPair, bundleSigners, bundleLen, ppCalls,
                   relayAnswer>>

\* sendTransaction resolves: executeTrade returns the signature
PpSendTransactionOk ==
    /\ ppPc = "sendTransaction"
    /\ ppPc' = "done"
    /\ ppResult' = "returned"
    /\ UNCHANGED <<ppOp, signerKeyPair, bundleSigners, bundleLen, ppCalls,
                   relayAnswer, ppError>>

\* sendTransaction rejects
PpSendTransactionFails ==
    /\ ppPc = "sendTransaction"
    /\ PpThrow("failed to send transaction")
    /\ UNCHANGED <<ppOp, signerKeyPair, bundleSigners, bundleLen, ppCalls,
                   relayAnswer>>

\* what the relay can answer: HTTP ok with a JSON-RPC result (the bundle id),
\* HTTP ok with a JSON-RPC error, or an HTTP status that is not ok
RelayAnswers == {"result", "error", "notOk"}

\* executeTradeBundle takes the bundle as submitted when `jitoResponse.ok`
RelayAccepted(answer) == answer # "notOk"

\* the relay answers: executeTradeBundle returns the signatures or throws
PpRelayAnswers ==
    /\ ppPc = "sendBundle"
    /\ \E answer \in RelayAnswers :
         /\ relayAnswer' = answer
         /\ IF RelayAccepted(answer)
              THEN /\ ppPc' = "done"
                   /\ ppResult' = "returned"
                   /\ UNCHANGED ppError
              ELSE PpThrow("Jito bundle submission failed")
    /\ UNCHANGED <<ppOp, signerKeyPair, bundleSigners, bundleLen, ppCalls>>

\* the request to the relay rejects
PpRelayRejects ==
    /\ ppPc = "sendBundle"
    /\ relayAnswer' = "rejected"
    /\ PpThrow("request to the relay failed")
    /\ UNCHANGED <<ppOp, signerKeyPair, bundleSigners, bundleLen, ppCalls>>

(***************************************************************************)
(* SimpleVolumeBot.start and _executeGroupTradeCycle (multi-wallet bot)    *)
(***************************************************************************)
Min(a, b) == IF a <= b THEN a ELSE b

\* faulty variant: the end index of the slice is taken as inclusive
SliceInclusive(s, begin, end) == SubSeq(s, begin + 1, Min(end + 1, Len(s)))

\* Array.prototype.slice(begin, end) for 0 <= begin <= end: the elements at
\* the 0-based indexes begin .. end - 1 that exist
Slice(s, begin, end) == SubSeq(s, begin + 1, Min(end, Len(s)))

RECURSIVE BuildGroups(_, _)
\* `for (let i = 0; i < traders.length; i += 5) push(traders.slice(i, i + 5))`
BuildGroups(tr, i) ==
    IF i < Len(tr)
      THEN <<Slice(tr, i, i + groupSize)>> \o BuildGroups(tr, i + groupSize)
      ELSE <<>>

\* the mapped async functions of the groups: one per group and index
Slots(groups) ==
    { <<g, i>> : g \in 1..Len(groups), i \in 1..(groupSize + 1) } \cap
    { s \in (1..Len(groups)) \X (1..(groupSize + 1)) :
        s[2] <= Len(groups[s[1]]) }

\* walletGroup.map(async (wallet, index) => ...): the function of index 0
\* calls _executeSingleTrade at once, the others first wait 1000 ms
FreshTasks(groups) ==
    [s \in Slots(groups) |-> IF s[2] = 1 THEN "trading" ELSE "delay"]

\* the tasks of group g are replaced by fresh ones (the sells)
RestartTasks(g) ==
    [s \in DOMAIN task |->
        IF s[1] = g THEN (IF s[2] = 1 THEN "trading" ELSE "delay")
        ELSE task[s]]

GIdle ==
    /\ startPc = "idle"
    /\ isRunning = FALSE
    /\ traders = <<>>
    /\ walletGroups = <<>>
    /\ cycles = 0
    /\ groupPc = <<>>
    /\ task = <<>>

\* start() is called on a stopped bot that holds some trader wallets
GStart ==
    /\ startPc = "called"
    /\ isRunning = FALSE
    /\ \E n \in 0..MaxWallets : traders = [w \in 1..n |-> w]
    /\ walletGroups = <<>>
    /\ cycles = 0
    /\ groupPc = <<>>
    /\ task = <<>>

\* start() up to its loop: the bot is marked running and the groups built
GBuildGroups ==
    /\ startPc = "called"
    /\ ~isRunning
    /\ isRunning' = TRUE
    /\ walletGroups' = BuildGroups(traders, 0)
    /\ groupPc' = [g \in 1..Len(walletGroups') |-> "done"]
    /\ task' = [s \in Slots(walletGroups') |-> "none"]
    /\ startPc' = "loop"
    /\ UNCHANGED <<traders, cycles>>

\* the loop condition holds: _executeGroupTradeCycle is called for every
\* group, and each maps its wallets to the buys
GCycleStarts ==
    /\ startPc = "loop"
    /\ isRunning
    /\ cycles < MaxCycles
    /\ cycles' = cycles + 1
    /\ groupPc' = [g \in 1..Len(walletGroups) |-> "buy"]
    /\ task' = FreshTasks(walletGroups)
    /\ startPc' = "cycle"
    /\ UNCHANGED <<isRunning, traders, walletGroups>>

\* the loop condition fails (the duration is over): the bot stops
GLoopEnds ==
    /\ startPc = "loop"
    /\ startPc' = "done"
    /\ isRunning' = FALSE
    /\ UNCHANGED <<traders, walletGroups, cycles, groupPc, task>>

\* the 1000 ms delay of a mapped function is over: it calls
\* _executeSingleTrade for its wallet
GTaskDelayOver(s) ==
    /\ task[s] = "delay"
    /\ task' = [task EXCEPT ![s] = "trading"]
    /\ UNCHANGED <<startPc, isRunning, traders, walletGroups, cycles, groupPc>>

\* every mapped function of group g has settled but s
LastOfGroup(s) ==
    \A o \in DOMAIN task :
        (o[1] = s[1] /\ o # s) => task[o] \in {"true", "false"}

\* _executeSingleTrade of a mapped function settles with true or false (it
\* catches every error); when it is the last of the group's Promise.all the
\* group goes on: after the buys to the 5 s wait, after the sells it returns
GTaskSettles(s) ==
    /\ task[s] = "trading"
    /\ \E ok \in {"true", "false"} : task' = [task EXCEPT ![s] = ok]
    /\ groupPc' = IF LastOfGroup(s)
                    THEN [groupPc EXCEPT ![s[1]] =
                            IF groupPc[s[1]] = "buy" THEN "wait" ELSE "done"]
                    ELSE groupPc
    /\ UNCHANGED <<startPc, isRunning, traders, walletGroups, cycles>>

\* the 5 s wait of group g is over: its wallets are mapped to the sells
GWaitOver(g) ==
    /\ groupPc[g] = "wait"
    /\ groupPc' = [groupPc EXCEPT ![g] = "sell"]
    /\ task' = RestartTasks(g)
    /\ UNCHANGED <<startPc, isRunning, traders, walletGroups, cycles>>

\* every group has returned: Promise.all of start() resolves, the status is
\* emitted and the random delay awaited
GCycleDone ==
    /\ startPc = "cycle"
    /\ \A g \in 1..Len(walletGroups) : groupPc[g] = "done"
    /\ startPc' = "delay"
    /\ UNCHANGED <<isRunning, traders, walletGroups, cycles, groupPc, task>>

\* the delay between two rounds is over
GDelayOver ==
    /\ startPc = "delay"
    /\ startPc' = "loop"
    /\ UNCHANGED <<isRunning, traders, walletGroups, cycles, groupPc, task>>

(***************************************************************************)
(* PumpPortalClient: connect, close, socket events, subscriptions          *)
(* (src/pump_portal.js)                                                    *)
(***************************************************************************)
Tokens == {"token1", "token2"}
Accounts == {"account1", "account2"}

\* the arrays handed to the subscription methods
KeyLists(keys) ==
    {<<>>} \cup { <<a>> : a \in keys } \cup { <<a, b>> : a, b \in keys }

Elements(list) == { list[i] : i \in 1..Len(list) }

NoMessage == [method |-> "none", keys |-> <<>>]
NoCall == [method |-> "none", keys |-> <<>>, threw |-> FALSE]

\* the state the constructor leaves
WsIdle ==
    /\ ws = 0
    /\ isConnected = FALSE
    /\ connectionPromise = 0
    /\ subscribedTokens = {}
    /\ subscribedAccounts = {}
    /\ sockets = <<>>
    /\ promises = <<>>
    /\ sentCount = 0
    /\ lastMessage = NoMessage
    /\ subscribedOn = <<>>
    /\ calls = 0
    /\ connectCalls = 0
    /\ lossSeen = FALSE
    /\ lastCall = NoCall

\* a method call is served and returns or throws
Served(method, keys, threw) ==
    /\ calls < MaxCalls
    /\ calls' = calls + 1
    /\ connectCalls' = IF method = "connect" THEN connectCalls + 1
                       ELSE connectCalls
    /\ lastCall' = [method |-> method, keys |-> keys, threw |-> threw]

\* faulty variant: a connection attempt in progress is not reused
ConnectReusesConnectedOnly == isConnected /\ ws # 0

\* connect() returns without building a socket: the client is connected, or
\* a connection attempt is in progress
ConnectReuses ==
    \/ isConnected /\ ws # 0
    \/ connectionPromise # 0

WsConnectReuses ==
    /\ ConnectReuses
    /\ Served("connect", <<>>, FALSE)
    /\ UNCHANGED <<ws, isConnected, connectionPromise, subscribedTokens,
                   subscribedAccounts, sockets, promises, sentCount,
                   lastMessage, subscribedOn, lossSeen>>

\* connect() builds a socket in the executor of a new promise, registers the
\* handlers and keeps the promise
WsConnectCreates ==
    /\ ~ConnectReuses
    /\ Len(sockets) < MaxSockets
    /\ Served("connect", <<>>, FALSE)
    /\ sockets' = Append(sockets, "connecting")
    /\ subscribedOn' = Append(subscribedOn, {})
    /\ promises' = Append(promises, "pending")
    /\ ws' = Len(sockets) + 1
    /\ connectionPromise' = Len(promises) + 1
    /\ UNCHANGED <<isConnected, subscribedTokens, subscribedAccounts,
                   sentCount, lastMessage, lossSeen>>

\* the WebSocket constructor throws: the catch clears connectionPromise and
\* rejects, then the assignment of the new promise to connectionPromise
\* completes, so the client keeps the rejected promise
WsConnectThrows ==
    /\ ~ConnectReuses
    /\ Len(sockets) < MaxSockets
    /\ Served("connect", <<>>, FALSE)
    /\ sockets' = Append(sockets, "none")
    /\ subscribedOn' = Append(subscribedOn, {})
    /\ promises' = Append(promises, "rejected")
    /\ connectionPromise' = Len(promises) + 1
    /\ lossSeen' = TRUE
    /\ UNCHANGED <<ws, isConnected, subscribedTokens, subscribedAccounts,
                   sentCount, lastMessage>>

Settle(p, outcome) ==
    [promises EXCEPT ![p] = IF @ = "pending" THEN outcome ELSE @]

\* the 'open' handler of socket s
WsOpenEvent(s) ==
    /\ sockets[s] = "connecting"
    /\ sockets' = [sockets EXCEPT ![s] = "open"]
    /\ isConnected' = TRUE
    /\ connectionPromise' = 0
    /\ promises' = Settle(s, "resolved")
    /\ UNCHANGED <<ws, subscribedTokens, subscribedAccounts, sentCount,
                   lastMessage, subscribedOn, calls, connectCalls, lossSeen,
                   lastCall>>

\* the 'error' handler of socket s: the handshake or the connection failed,
\* or the socket was closed before it opened
WsErrorEvent(s) ==
    /\ sockets[s] \in {"connecting", "open", "aborting"}
    /\ sockets' = [sockets EXCEPT ![s] = "errored"]
    /\ isConnected' = FALSE
    /\ ws' = 0
    /\ connectionPromise' = 0
    /\ promises' = Settle(s, "rejected")
    /\ lossSeen' = TRUE
    /\ UNCHANGED <<subscribedTokens, subscribedAccounts, sentCount,
                   lastMessage, subscribedOn, calls, connectCalls, lastCall>>

\* the 'close' handler of socket s: the peer closed it, close() completed,
\* or the socket failed; a socket that has not opened may emit 'close'
\* with or without an 'error' before it
WsCloseEvent(s) ==
    /\ sockets[s] \in {"connecting", "aborting", "open", "closing", "errored"}
    /\ sockets' = [sockets EXCEPT ![s] = "closed"]
    /\ isConnected' = FALSE
    /\ ws' = 0
    /\ connectionPromise' = 0
    /\ lossSeen' = TRUE
    /\ UNCHANGED <<subscribedTokens, subscribedAccounts, promises, sentCount,
                   lastMessage, subscribedOn, calls, connectCalls, lastCall>>

\* WebSocket.close() on a socket in the given state
CloseCalled(state) ==
    CASE state = "connecting" -> "aborting"
      [] state = "open" -> "closing"
      [] OTHER -> state

\* close()
WsClose ==
    /\ Served("close", <<>>, FALSE)
    /\ IF ws # 0
         THEN /\ sockets' = [sockets EXCEPT ![ws] = CloseCalled(@)]
              /\ ws' = 0
              /\ isConnected' = FALSE
              /\ lossSeen' = TRUE
         ELSE UNCHANGED <<sockets, ws, isConnected, lossSeen>>
    /\ UNCHANGED <<connectionPromise, subscribedTokens, subscribedAccounts,
                   promises, sentCount, lastMessage, subscribedOn>>

\* _sendMessage throws: the client is not connected, or ws.send throws
\* because the socket it holds is not open
SendThrows == ~isConnected \/ ws = 0 \/ sockets[ws] # "open"

\* subscribeNewToken()
WsSubscribeNewToken ==
    /\ Served("subscribeNewToken", <<>>, SendThrows)
    /\ IF SendThrows
         THEN UNCHANGED <<sentCount, lastMessage>>
         ELSE /\ sentCount' = sentCount + 1
              /\ lastMessage' = [method |-> "subscribeNewToken", keys |-> <<>>]
    /\ UNCHANGED <<ws, isConnected, connectionPromise, subscribedTokens,
                   subscribedAccounts, sockets, promises, subscribedOn,
                   lossSeen>>

\* faulty variant: the tokens already subscribed are not filtered out
NewTokensUnfiltered(tokenAddresses) == tokenAddresses

\* tokenAddresses.filter(addr => !this.subscribedTokens.has(addr))
NewTokens(tokenAddresses) ==
    SelectSeq(tokenAddresses, LAMBDA addr : addr \notin subscribedTokens)

\* subscribeTokenTrade(tokenAddresses)
WsSubscribeTokenTrade(tokenAddresses) ==
    LET newTokens == NewTokens(tokenAddresses)
        threw == Len(newTokens) > 0 /\ SendThrows
    IN  /\ Served("subscribeTokenTrade", tokenAddresses, threw)
        /\ IF Len(newTokens) > 0 /\ ~SendThrows
             THEN /\ sentCount' = sentCount + 1
                  /\ lastMessage' = [method |-> "subscribeTokenTrade",
                                     keys |-> newTokens]
                  /\ subscribedOn' = [subscribedOn EXCEPT
                                       ![ws] = @ \cup Elements(newTokens)]
                  /\ subscribedTokens' =
                        subscribedTokens \cup Elements(newTokens)
             ELSE UNCHANGED <<sentCount, lastMessage, subscribedOn,
                              subscribedTokens>>
        /\ UNCHANGED <<ws, isConnected, connectionPromise, subscribedAccounts,
                       sockets, promises, lossSeen>>

\* unsubscribeTokenTrade(tokenAddresses)
WsUnsubscribeTokenTrade(tokenAddresses) ==
    /\ Served("unsubscribeTokenTrade", tokenAddresses, SendThrows)
    /\ IF SendThrows
         THEN UNCHANGED <<sentCount, lastMessage, subscribedOn,
                          subscribedTokens>>
         ELSE /\ sentCount' = sentCount + 1
              /\ lastMessage' = [method |-> "unsubscribeTokenTrade",
                                 keys |-> tokenAddresses]
              /\ subscribedOn' = [subscribedOn EXCEPT
                                   ![ws] = @ \ Elements(tokenAddresses)]
              /\ subscribedTokens' =
                    subscribedTokens \ Elements(tokenAddresses)
    /\ UNCHANGED <<ws, isConnected, connectionPromise, subscribedAccounts,
                   sockets, promises, lossSeen>>

\* subscribeAccountTrade(accountAddresses): the class defines no such
\* method, so the call throws a TypeError
WsSubscribeAccountTrade(accountAddresses) ==
    /\ Served("subscribeAccountTrade", accountAddresses, TRUE)
    /\ UNCHANGED <<ws, isConnected, connectionPromise, subscribedTokens,
                   subscribedAccounts, sockets, promises, sentCount,
                   lastMessage, subscribedOn, lossSeen>>

(***************************************************************************)
(* VolumeBot: startVolumeBot, stopVolumeBot, _startVolumeManagement        *)
(* (src/volume_bot.js)                                                     *)
(***************************************************************************)
BotTokens == {"PUMP_TOKEN_ADDRESS", "RAYDIUM_TOKEN_ADDRESS"}
Platforms == {"pump", "raydium"}

\* the state the constructor leaves
VbIdle ==
    /\ vbIsRunning = FALSE
    /\ activeTokens = [t \in BotTokens |-> "none"]
    /\ monitored = {}
    /\ loops = [t \in BotTokens |-> 0]
    /\ starting = {}
    /\ stopping = {}
    /\ startedOk = {}
    /\ vbCalls = 0

\* startVolumeBot(tokenAddress, platform) up to its await: on a bot that is
\* not running the bot is marked running, the token state is set and
\* _monitorTokenTrades is called; on a running bot the call does nothing
VbStart(tokenAddress, platform) ==
    /\ tokenAddress \notin starting
    /\ vbCalls < MaxBotCalls
    /\ vbCalls' = vbCalls + 1
    /\ IF ~vbIsRunning
         THEN /\ vbIsRunning' = TRUE
              /\ activeTokens' = [activeTokens EXCEPT ![tokenAddress] = platform]
              /\ starting' = starting \cup {tokenAddress}
              /\ UNCHANGED startedOk
         ELSE /\ startedOk' = startedOk \cup {tokenAddress}
              /\ UNCHANGED <<vbIsRunning, activeTokens, starting>>
    /\ UNCHANGED <<monitored, loops, stopping>>

\* _monitorTokenTrades resolves; _startVolumeManagement runs up to its first
\* await: it returns when the token has no state or the bot is not running,
\* and else is a live loop
VbMonitorOk(tokenAddress) ==
    /\ tokenAddress \in starting
    /\ starting' = starting \ {tokenAddress}
    /\ monitored' = monitored \cup {tokenAddress}
    /\ loops' = IF activeTokens[tokenAddress] # "none" /\ vbIsRunning
                  THEN [loops EXCEPT ![tokenAddress] = @ + 1]
                  ELSE loops
    /\ startedOk' = startedOk \cup {tokenAddress}
    /\ UNCHANGED <<vbIsRunning, activeTokens, stopping, vbCalls>>

\* _monitorTokenTrades rejects (the portal is not connected): startVolumeBot
\* throws
VbMonitorFails(tokenAddress) ==
    /\ tokenAddress \in starting
    /\ starting' = starting \ {tokenAddress}
    /\ UNCHANGED <<vbIsRunning, activeTokens, monitored, loops, stopping,
                   startedOk, vbCalls>>

\* a loop of _startVolumeManagement is through an iteration and tests
\* `while (this.isRunning)`
VbLoopWakes(tokenAddress) ==
    /\ loops[tokenAddress] > 0
    /\ loops' = IF vbIsRunning THEN loops
                  ELSE [loops EXCEPT ![tokenAddress] = @ - 1]
    /\ UNCHANGED <<vbIsRunning, activeTokens, monitored, starting, stopping,
                   startedOk, vbCalls>>

\* stopVolumeBot(tokenAddress) up to its await: for a token with a state the
\* bot is marked not running and the monitoring is cancelled
VbStop(tokenAddress) ==
    /\ tokenAddress \notin stopping
    /\ vbCalls < MaxBotCalls
    /\ vbCalls' = vbCalls + 1
    /\ startedOk' = startedOk \ {tokenAddress}
    /\ IF activeTokens[tokenAddress] # "none"
         THEN /\ vbIsRunning' = FALSE
              /\ stopping' = stopping \cup {tokenAddress}
         ELSE UNCHANGED <<vbIsRunning, stopping>>
    /\ UNCHANGED <<activeTokens, monitored, loops, starting>>

\* the cancellation resolves: the token state is deleted
VbUnsubscribeOk(tokenAddress) ==
    /\ tokenAddress \in stopping
    /\ stopping' = stopping \ {tokenAddress}
    /\ monitored' = monitored \ {tokenAddress}
    /\ activeTokens' = [activeTokens EXCEPT ![tokenAddress] = "none"]
    /\ UNCHANGED <<vbIsRunning, loops, starting, startedOk, vbCalls>>

\* the cancellation rejects: stopVolumeBot throws and the token state stays
VbUnsubscribeFails(tokenAddress) ==
    /\ tokenAddress \in stopping
    /\ stopping' = stopping \ {tokenAddress}
    /\ UNCHANGED <<vbIsRunning, activeTokens, monitored, loops, starting,
                   startedOk, vbCalls>>

(***************************************************************************)
(* SimpleVolumeBot._executeTradeCycle (multi-wallet bot) and the caller    *)
(* executeTradeCycle of tests/test_simple_volume_bot.js                    *)
(***************************************************************************)
TcIdle ==
    /\ tcPc = "idle"
    /\ tcType = "none"
    /\ tcWallet = 0
    /\ tcBuy = "none"
    /\ tcSell = "none"
    /\ tcResult = "none"
    /\ tcCalls = 0
    /\ tcTotalTrades = 0
    /\ callerTotal = 0
    /\ callerSuccessful = 0
    /\ failedCounted = 0

\* what _executeSingleTrade can resolve to: without a wallet it throws inside
\* its try and the catch returns false; with one it returns true, or false
\* from the catch or from the sell that finds no token balance
SingleTradeOutcomes(wallet) ==
    IF wallet = 0 THEN {"false"} ELSE {"true", "false"}

\* the caller counts two trades and calls _executeTradeCycle, which counts a
\* trade and calls _executeSingleTrade for the buy
TcCall(tokenType, wallet) ==
    /\ tcPc \in {"idle", "done"}
    /\ tcCalls < MaxCycleCalls
    /\ tcCalls' = tcCalls + 1
    /\ callerTotal' = callerTotal + 2
    /\ tcTotalTrades' = tcTotalTrades + 1
    /\ tcType' = tokenType
    /\ tcWallet' = wallet
    /\ tcBuy' = "none"
    /\ tcSell' = "none"
    /\ tcResult' = "none"
    /\ tcPc' = "buy"
    /\ UNCHANGED <<callerSuccessful, failedCounted>>

\* the buy resolves; its value is dropped and the 5 s wait begins
TcBuySettles ==
    /\ tcPc = "buy"
    /\ \E ok \in SingleTradeOutcomes(tcWallet) : tcBuy' = ok
    /\ tcPc' = "wait"
    /\ UNCHANGED <<tcType, tcWallet, tcSell, tcResult, tcCalls, tcTotalTrades,
                   callerTotal, callerSuccessful, failedCounted>>

\* the wait is over: _executeSingleTrade is called for the sell
TcWaitOver ==
    /\ tcPc = "wait"
    /\ tcPc' = "sell"
    /\ UNCHANGED <<tcType, tcWallet, tcBuy, tcSell, tcResult, tcCalls,
                   tcTotalTrades, callerTotal, callerSuccessful,
                   failedCounted>>

\* what _executeTradeCycle resolves to once both awaits are through: the
\* values of the two trades are not looked at
CycleResult(buy, sell) == "true"

\* the sell resolves; _executeTradeCycle returns and the caller, whose await
\* did not throw, counts two successes
TcSellSettles ==
    /\ tcPc = "sell"
    /\ \E ok \in SingleTradeOutcomes(tcWallet) :
         /\ tcSell' = ok
         /\ tcResult' = CycleResult(tcBuy, ok)
         /\ callerSuccessful' = IF CycleResult(tcBuy, ok) = "true"
                                  THEN callerSuccessful + 2
                                  ELSE callerSuccessful
         /\ failedCounted' =
              IF CycleResult(tcBuy, ok) = "true" /\ "false" \in {tcBuy, ok}
                THEN failedCounted + 1 ELSE failedCounted
    /\ tcPc' = "done"
    /\ UNCHANGED <<tcType, tcWallet, tcBuy, tcCalls, tcTotalTrades,
                   callerTotal>>

(***************************************************************************)
(* SimpleRequestQueue (src/jupiter_portal.js)                              *)
(***************************************************************************)
Pending == [outcome |-> "pending", of |-> 0]

\* the state the constructor leaves
QIdle ==
    /\ queue = <<>>
    /\ processing = FALSE
    /\ chains = {}
    /\ opsAdded = 0
    /\ opsStarted = <<>>
    /\ opSettled = [o \in 1..MaxOps |-> Pending]

\* processNext() up to its first await, on the queue q and the calls ch
ProcessNext(q, ch) ==
    IF Len(q) = 0
      THEN /\ processing' = FALSE
           /\ queue' = q
           /\ chains' = ch
      ELSE /\ processing' = TRUE
           /\ queue' = Tail(q)
           /\ chains' = ch \cup {[pc |-> "delay", op |-> Head(q)]}

\* faulty variant: add() calls processNext whatever the flag says
AddCallsProcessNextAlways == TRUE

\* add() calls processNext
AddCallsProcessNext == ~processing

\* add(operation)
QAdd ==
    /\ opsAdded < MaxOps
    /\ opsAdded' = opsAdded + 1
    /\ IF AddCallsProcessNext
         THEN ProcessNext(Append(queue, opsAdded + 1), chains)
         ELSE /\ queue' = Append(queue, opsAdded + 1)
              /\ UNCHANGED <<processing, chains>>
    /\ UNCHANGED <<opsStarted, opSettled>>

\* the forced delay of a call of processNext is over: the operation is called
QDelayOver(c) ==
    /\ c \in chains
    /\ c.pc = "delay"
    /\ chains' = (chains \ {c}) \cup {[c EXCEPT !.pc = "operation"]}
    /\ opsStarted' = Append(opsStarted, c.op)
    /\ UNCHANGED <<queue, processing, opsAdded, opSettled>>

\* the operation settles: resolve or reject of the item taken with it is
\* called, and the timer of the next processNext is set
QOperationSettles(c) ==
    /\ c \in chains
    /\ c.pc = "operation"
    /\ \E outcome \in {"resolved", "rejected"} :
         opSettled' = [opSettled EXCEPT ![c.op] =
                          [outcome |-> outcome, of |-> c.op]]
    /\ chains' = (chains \ {c}) \cup {[c EXCEPT !.pc = "timer"]}
    /\ UNCHANGED <<queue, processing, opsAdded, opsStarted>>

\* the timer fires: processNext()
QTimerFires(c) ==
    /\ c \in chains
    /\ c.pc = "timer"
    /\ ProcessNext(queue, chains \ {c})
    /\ UNCHANGED <<opsAdded, opsStarted, opSettled>>

(***************************************************************************)
(* RaydiumPortalClient.monitorNewTokens and processNewToken                *)
(* (src/jupiter_portal.js)                                                 *)
(***************************************************************************)
Mints == {"listed", "mintA", "mintB"}

\* the token list loaded at connect
ListedMints == {"listed"}

\* the mints of postTokenBalances of the transactions that are logged
LoggedTxs == {"tx1", "tx2", "tx3"}

PostTokenMints(tx) ==
    CASE tx = "tx1" -> <<"mintA", "mintA">>
      [] tx = "tx2" -> <<"listed", "mintA", "mintB">>
      [] OTHER -> <<"mintB">>

\* monitorNewTokens has been called on a connected client
RIdle ==
    /\ knownMints = ListedMints
    /\ rQueue = <<>>
    /\ rOps = {}
    /\ callbackCalls = [mint \in Mints |-> 0]
    /\ logsSeen = 0

\* a log line 'Instruction: InitializeMint' or 'CreateMint' of transaction tx
\* is handled: processNewToken hands its operation to the request queue
RLog(tx) ==
    /\ logsSeen < MaxLogs
    /\ logsSeen' = logsSeen + 1
    /\ rQueue' = Append(rQueue, tx)
    /\ UNCHANGED <<knownMints, rOps, callbackCalls>>

\* faulty variant: operations are started while another one is running
OperationMayStartAlways == TRUE

\* the request queue starts an operation only when none is running
OperationMayStart == rOps = {}

\* the request queue starts the oldest operation: getParsedTransaction
ROpStarts ==
    /\ Len(rQueue) > 0
    /\ OperationMayStart
    /\ rOps' = rOps \cup {[tx |-> Head(rQueue), i |-> 0, pc |-> "getTransaction"]}
    /\ rQueue' = Tail(rQueue)
    /\ UNCHANGED <<knownMints, callbackCalls, logsSeen>>

RECURSIVE NextUnknown(_, _, _)
\* the loop over postTokenBalances from index i: the first index whose mint
\* is not in known (every known one is skipped by `continue`), or one past
\* the end
NextUnknown(mints, i, known) ==
    IF i > Len(mints) THEN i
    ELSE IF mints[i] \in known THEN NextUnknown(mints, i + 1, known)
    ELSE i

\* the loop of operation op goes on at index i with the set known: it awaits
\* getParsedAccountInfo of the next unknown mint, or the operation ends
Continue(op, i, known) ==
    LET j == NextUnknown(PostTokenMints(op.tx), i, known)
    IN  rOps' = IF j > Len(PostTokenMints(op.tx))
                  THEN rOps \ {op}
                  ELSE (rOps \ {op}) \cup
                       {[tx |-> op.tx, i |-> j, pc |-> "getAccountInfo"]}

\* getParsedTransaction settles: with the balances the loop begins, without
\* them (or with an error) the operation ends
RGetTransaction(op) ==
    /\ op \in rOps
    /\ op.pc = "getTransaction"
    /\ \/ Continue(op, 1, knownMints)
       \/ rOps' = rOps \ {op}
    /\ UNCHANGED <<knownMints, rQueue, callbackCalls, logsSeen>>

\* getParsedAccountInfo settles: with the parsed info the mint is added to
\* knownMints and getTokenInfo awaited; without it the loop goes on; an
\* error ends the operation
RGetAccountInfo(op) ==
    /\ op \in rOps
    /\ op.pc = "getAccountInfo"
    /\ \/ /\ knownMints' = knownMints \cup {PostTokenMints(op.tx)[op.i]}
          /\ rOps' = (rOps \ {op}) \cup {[op EXCEPT !.pc = "getTokenInfo"]}
       \/ /\ Continue(op, op.i + 1, knownMints)
          /\ UNCHANGED knownMints
       \/ /\ rOps' = rOps \ {op}
          /\ UNCHANGED knownMints
    /\ UNCHANGED <<rQueue, callbackCalls, logsSeen>>

\* getTokenInfo settles, either way: the callback is called for the mint;
\* when it returns the loop goes on, when it throws the operation ends
RGetTokenInfo(op) ==
    /\ op \in rOps
    /\ op.pc = "getTokenInfo"
    /\ callbackCalls' = [callbackCalls EXCEPT ![PostTokenMints(op.tx)[op.i]] = @ + 1]
    /\ \/ Continue(op, op.i + 1, knownMints)
       \/ rOps' = rOps \ {op}
    /\ UNCHANGED <<knownMints, rQueue, logsSeen>>

(***************************************************************************)
(* SimpleVolumeBot.start and stop, called several times (multi-wallet bot) *)
(***************************************************************************)
LIdle ==
    /\ sbIsRunning = FALSE
    /\ hasTraders = FALSE
    /\ loopPc = [l \in 1..MaxStarts |-> "none"]
    /\ stopped = [l \in 1..MaxStarts |-> FALSE]
    /\ ranAfterStop = [l \in 1..MaxStarts |-> FALSE]
    /\ startCalls = 0

\* a constructed bot, with or without trader wallets
LStart ==
    /\ sbIsRunning = FALSE
    /\ hasTraders \in BOOLEAN
    /\ loopPc = [l \in 1..MaxStarts |-> "none"]
    /\ stopped = [l \in 1..MaxStarts |-> FALSE]
    /\ ranAfterStop = [l \in 1..MaxStarts |-> FALSE]
    /\ startCalls = 0

\* start() throws: the bot is running, or it has no trader wallets and
\* initializeTraderWallets throws 'Wallets not properly initialized'
LStartThrows ==
    /\ startCalls < MaxStarts
    /\ sbIsRunning \/ ~hasTraders
    /\ startCalls' = startCalls + 1
    /\ loopPc' = [loopPc EXCEPT ![startCalls + 1] = "threw"]
    /\ UNCHANGED <<sbIsRunning, hasTraders, stopped, ranAfterStop>>

\* start() on a bot that is not running: isRunning is set and, the end time
\* not being reached, the first trade cycle is begun; with a duration that
\* is over at once the loop is not entered and isRunning is cleared
LStartRuns ==
    /\ startCalls < MaxStarts
    /\ ~sbIsRunning /\ hasTraders
    /\ startCalls' = startCalls + 1
    /\ \/ /\ sbIsRunning' = TRUE
          /\ loopPc' = [loopPc EXCEPT ![startCalls + 1] = "cycle"]
       \/ /\ sbIsRunning' = FALSE
          /\ loopPc' = [loopPc EXCEPT ![startCalls + 1] = "finished"]
    /\ UNCHANGED <<hasTraders, stopped, ranAfterStop>>

\* the trade cycles of all groups have settled: the status is emitted and
\* the random delay awaited
LCycleDone(l) ==
    /\ loopPc[l] = "cycle"
    /\ loopPc' = [loopPc EXCEPT ![l] = "sleep"]
    /\ UNCHANGED <<sbIsRunning, hasTraders, stopped, ranAfterStop, startCalls>>

\* `while (this.isRunning && Date.now() < this.stats.endTime)`
LoopGoesOn(timeLeft) == sbIsRunning /\ timeLeft

\* the delay of loop l is over and the loop condition is tested: the next
\* trade cycle begins, or the loop ends and isRunning is cleared
LWakes(l) ==
    /\ loopPc[l] = "sleep"
    /\ \E timeLeft \in BOOLEAN :
         IF LoopGoesOn(timeLeft)
           THEN /\ loopPc' = [loopPc EXCEPT ![l] = "cycle"]
                /\ ranAfterStop' = [ranAfterStop EXCEPT ![l] = stopped[l]]
                /\ UNCHANGED sbIsRunning
           ELSE /\ loopPc' = [loopPc EXCEPT ![l] = "finished"]
                /\ sbIsRunning' = FALSE
                /\ UNCHANGED ranAfterStop
    /\ UNCHANGED <<hasTraders, stopped, startCalls>>

\* stop()
LStop ==
    /\ sbIsRunning' = FALSE
    /\ stopped' = [l \in 1..MaxStarts |->
                     stopped[l] \/ loopPc[l] \in {"cycle", "sleep"}]
    /\ UNCHANGED <<hasTraders, loopPc, ranAfterStop, startCalls>>

(***************************************************************************)
(* SimpleVolumeBot: the counters of this.stats (multi-wallet bot, and the  *)
(* single-wallet variant of start and _executeTradeCycle)                  *)
(***************************************************************************)
SIdle ==
    /\ sVariant = "multi"
    /\ sGroups = <<>>
    /\ sLoop = "idle"
    /\ sRounds = 0
    /\ sPc = <<>>
    /\ sBuyOk = <<>>
    /\ sSellOk = <<>>
    /\ successfulTrades = 0
    /\ totalTrades = 0

\* a constructed bot whose start() has reached its loop: the groups of the
\* multi-wallet bot are built from 1 .. MaxWallets trader wallets
SStart ==
    /\ sVariant \in {"multi", "single"}
    /\ \E n \in 1..MaxWallets :
         LET groups == BuildGroups([w \in 1..n |-> w], 0) IN
         sGroups = IF sVariant = "multi"
                     THEN [g \in 1..Len(groups) |-> Len(groups[g])]
                     ELSE <<>>
    /\ sLoop = "loop"
    /\ sRounds = 0
    /\ sPc = [g \in 1..Len(sGroups) |-> "idle"]
    /\ sBuyOk = [g \in 1..Len(sGroups) |-> 0]
    /\ sSellOk = [g \in 1..Len(sGroups) |-> 0]
    /\ successfulTrades = 0
    /\ totalTrades = 0

\* multi-wallet bot: the loop condition holds and _executeGroupTradeCycle is
\* called for every group
SRoundStarts ==
    /\ sVariant = "multi"
    /\ sLoop = "loop"
    /\ sRounds < MaxRounds
    /\ sRounds' = sRounds + 1
    /\ sLoop' = "cycle"
    /\ sPc' = [g \in 1..Len(sGroups) |-> "buy"]
    /\ sBuyOk' = [g \in 1..Len(sGroups) |-> 0]
    /\ sSellOk' = [g \in 1..Len(sGroups) |-> 0]
    /\ UNCHANGED <<sVariant, sGroups, successfulTrades, totalTrades>>

\* the loop condition fails
SLoopEnds ==
    /\ sLoop = "loop"
    /\ sLoop' = "done"
    /\ UNCHANGED <<sVariant, sGroups, sRounds, sPc, sBuyOk, sSellOk,
                   successfulTrades, totalTrades>>

\* Promise.all of the buys of group g resolves, some of them with true; the
\* 5 s wait follows
SBuysSettle(g) ==
    /\ sPc[g] = "buy"
    /\ \E b \in 0..sGroups[g] : sBuyOk' = [sBuyOk EXCEPT ![g] = b]
    /\ sPc' = [sPc EXCEPT ![g] = "wait"]
    /\ UNCHANGED <<sVariant, sGroups, sLoop, sRounds, sSellOk,
                   successfulTrades, totalTrades>>

\* the 5 s wait of group g is over
SWaitOver(g) ==
    /\ sPc[g] = "wait"
    /\ sPc' = [sPc EXCEPT ![g] = "sell"]
    /\ UNCHANGED <<sVariant, sGroups, sLoop, sRounds, sBuyOk, sSellOk,
                   successfulTrades, totalTrades>>

\* faulty variant: one trade is counted per wallet
TotalAddedPerWallet(n) == n

\* `this.stats.totalTrades += walletGroup.length * 2`
TotalAdded(n) == n * 2

\* Promise.all of the sells of group g resolves, some of them with true: the
\* counters are updated and the group cycle returns true
SSellsSettle(g) ==
    /\ sPc[g] = "sell"
    /\ \E s \in 0..sGroups[g] :
         /\ sSellOk' = [sSellOk EXCEPT ![g] = s]
         /\ successfulTrades' = successfulTrades + sBuyOk[g] + s
    /\ totalTrades' = totalTrades + TotalAdded(sGroups[g])
    /\ sPc' = [sPc EXCEPT ![g] = "true"]
    /\ UNCHANGED <<sVariant, sGroups, sLoop, sRounds, sBuyOk>>

\* a Promise.all of group g rejects (a trade throws): the catch of the group
\* cycle returns false and the counters are not touched
STradesReject(g) ==
    /\ sPc[g] \in {"buy", "sell"}
    /\ sPc' = [sPc EXCEPT ![g] = "false"]
    /\ UNCHANGED <<sVariant, sGroups, sLoop, sRounds, sBuyOk, sSellOk,
                   successfulTrades, totalTrades>>

\* every group cycle has returned: the status is emitted and the delay
\* awaited
SRoundDone ==
    /\ sLoop = "cycle"
    /\ \A g \in 1..Len(sGroups) : sPc[g] \in {"true", "false"}
    /\ sLoop' = "delay"
    /\ UNCHANGED <<sVariant, sGroups, sRounds, sPc, sBuyOk, sSellOk,
                   successfulTrades, totalTrades>>

\* every group cycle has returned and emitting the status throws (a
\* listener of 'status' throws): the catch of start() counts 5 failed
\* attempts per group and waits 5 s
SRoundThrows ==
    /\ sLoop = "cycle"
    /\ \A g \in 1..Len(sGroups) : sPc[g] \in {"true", "false"}
    /\ totalTrades' = totalTrades + Len(sGroups) * groupSize
    /\ sLoop' = "delay"
    /\ UNCHANGED <<sVariant, sGroups, sRounds, sPc, sBuyOk, sSellOk,
                   successfulTrades>>

\* the delay between two rounds is over
SDelayOver ==
    /\ sLoop = "delay"
    /\ sLoop' = "loop"
    /\ UNCHANGED <<sVariant, sGroups, sRounds, sPc, sBuyOk, sSellOk,
                   successfulTrades, totalTrades>>

\* single-wallet variant: the loop condition holds, _executeTradeCycle is
\* called, counts the trade and awaits the swap
SwCycleStarts ==
    /\ sVariant = "single"
    /\ sLoop = "loop"
    /\ sRounds < MaxRounds
    /\ sRounds' = sRounds + 1
    /\ totalTrades' = totalTrades + 1
    /\ sLoop' = "swap"
    /\ UNCHANGED <<sVariant, sGroups, sPc, sBuyOk, sSellOk, successfulTrades>>

\* single-wallet variant: the swap settles; a success is counted, a failure
\* is caught and false returned; the delay follows
SwSwapSettles ==
    /\ sLoop = "swap"
    /\ \E ok \in BOOLEAN :
         successfulTrades' = IF ok THEN successfulTrades + 1
                             ELSE successfulTrades
    /\ sLoop' = "delay"
    /\ UNCHANGED <<sVariant, sGroups, sRounds, sPc, sBuyOk, sSellOk,
                   totalTrades>>

(***************************************************************************)
(* Specifications.                                                         *)
(***************************************************************************)
InitConfirm ==
    /\ height = 0 /\ landed = {}
    /\ CtStart
    /\ JIdle /\ FIdle /\ TIdle /\ BIdle /\ EtIdle
    /\ PpIdle
    /\ GIdle
    /\ WsIdle
    /\ VbIdle
    /\ TcIdle
    /\ QIdle
    /\ RIdle
    /\ LIdle
    /\ SIdle

\* one call of _confirmTransaction while the network produces blocks
NextConfirm ==
    \/ Tick /\ UNCHANGED exceptNet
    \/ CtBlockhashOk /\ UNCHANGED exceptCt
    \/ CtBlockhashFails /\ UNCHANGED exceptCt
    \/ CtStatus /\ UNCHANGED exceptCt
    \/ CtDelayOver /\ UNCHANGED exceptCt
    \/ CtStatus429 /\ UNCHANGED exceptCt
    \/ CtRateLimitDelayOver /\ UNCHANGED exceptCt
    \/ CtStatusError /\ UNCHANGED exceptCt

SpecConfirm == InitConfirm /\ [][NextConfirm]_vars

InitJupiter ==
    /\ height = 0 /\ landed = {}
    /\ CtIdle
    /\ JStart
    /\ FIdle /\ TIdle /\ BIdle /\ EtIdle
    /\ PpIdle
    /\ GIdle
    /\ WsIdle
    /\ VbIdle
    /\ TcIdle
    /\ QIdle
    /\ RIdle
    /\ LIdle
    /\ SIdle

\* one call of _sendAndConfirmTransactionWithRetry, the resenders it starts,
\* and the network producing blocks
NextJupiter ==
    \/ Tick /\ UNCHANGED exceptNet
    \/ JBlockhashOk /\ UNCHANGED exceptJ
    \/ JBlockhashFails /\ UNCHANGED exceptJ
    \/ JSendOk /\ UNCHANGED exceptJ
    \/ JSendFails /\ UNCHANGED exceptJ
    \/ JConfirmResolves /\ UNCHANGED exceptJ
    \/ JConfirmExpired /\ UNCHANGED exceptJ
    \/ JConfirmError /\ UNCHANGED exceptJ
    \/ JBackoffOver /\ UNCHANGED exceptJ
    \/ \E a \in Attempts : JResenderWakes(a) /\ UNCHANGED exceptJ
    \/ \E a \in Attempts : JResendSettles(a) /\ UNCHANGED exceptJ

SpecJupiter == InitJupiter /\ [][NextJupiter]_vars

\* timers fire and every network call of a resender settles
FairSpecJupiter ==
    /\ SpecJupiter
    /\ \A a \in Attempts :
          WF_vars((JResenderWakes(a) \/ JResendSettles(a))
                    /\ UNCHANGED exceptJ)

\* one logical transaction handled by one of the retrying operations
InitRetry ==
    /\ height = 0 /\ landed = {}
    /\ CtIdle /\ EtIdle
    /\ \/ JStart /\ FIdle /\ TIdle /\ BIdle
       \/ JIdle /\ FStart /\ TIdle /\ BIdle
       \/ JIdle /\ FIdle /\ TStart /\ BIdle
       \/ JIdle /\ FIdle /\ TIdle /\ BStart
    /\ PpIdle
    /\ GIdle
    /\ WsIdle
    /\ VbIdle
    /\ TcIdle
    /\ QIdle
    /\ RIdle
    /\ LIdle
    /\ SIdle

\* (the transfer and the buy loop never read the block height: blocks are
\* produced while one of the other two operations runs)
NextRetry ==
    \/ Tick /\ (jPc # "idle" \/ fPc # "idle") /\ UNCHANGED exceptNet
    \/ NetLands /\ UNCHANGED exceptNet
    \/ JBlockhashOk /\ UNCHANGED exceptJ
    \/ JBlockhashFails /\ UNCHANGED exceptJ
    \/ JSendOk /\ UNCHANGED exceptJ
    \/ JSendFails /\ UNCHANGED exceptJ
    \/ JConfirmResolves /\ UNCHANGED exceptJ
    \/ JConfirmExpired /\ UNCHANGED exceptJ
    \/ JConfirmError /\ UNCHANGED exceptJ
    \/ JBackoffOver /\ UNCHANGED exceptJ
    \/ \E a \in Attempts : JResenderWakes(a) /\ UNCHANGED exceptJ
    \/ \E a \in Attempts : JResendSettles(a) /\ UNCHANGED exceptJ
    \/ FSendOk /\ UNCHANGED exceptF
    \/ FSendFails /\ UNCHANGED exceptF
    \/ FStatus /\ UNCHANGED exceptF
    \/ FStatusError /\ UNCHANGED exceptF
    \/ FPollWaitOver /\ UNCHANGED exceptF
    \/ FRetryWaitOver /\ UNCHANGED exceptF
    \/ TGetAccountOk /\ UNCHANGED exceptT
    \/ TGetAccountFails /\ UNCHANGED exceptT
    \/ TTransferOk /\ UNCHANGED exceptT
    \/ TTransferFails /\ UNCHANGED exceptT
    \/ TStrategyOk /\ UNCHANGED exceptT
    \/ TStrategyFails /\ UNCHANGED exceptT
    \/ TConfirmResolves /\ UNCHANGED exceptT
    \/ TConfirmFails /\ UNCHANGED exceptT
    \/ TRetryWaitOver /\ UNCHANGED exceptT
    \/ BTradeLocalOk /\ UNCHANGED exceptB
    \/ BTradeLocalFails /\ UNCHANGED exceptB
    \/ BSendBundleOk /\ UNCHANGED exceptB
    \/ BSendBundleFails /\ UNCHANGED exceptB
    \/ BStatus /\ UNCHANGED exceptB
    \/ BPollWaitOver /\ UNCHANGED exceptB
    \/ BRetryWaitOver /\ UNCHANGED exceptB

SpecRetry == InitRetry /\ [][NextRetry]_vars

InitTrade ==
    /\ height = 0 /\ landed = {}
    /\ CtIdle /\ JIdle /\ FIdle /\ TIdle /\ BIdle
    /\ EtStart
    /\ PpIdle
    /\ GIdle
    /\ WsIdle
    /\ VbIdle
    /\ TcIdle
    /\ QIdle
    /\ RIdle
    /\ LIdle
    /\ SIdle

\* one call of PumpPortalSwapTester.executeTrade while the network produces
\* blocks
NextTrade ==
    \/ Tick /\ UNCHANGED exceptNet
    \/ EtFetchOk /\ UNCHANGED exceptEt
    \/ EtFetchFails /\ UNCHANGED exceptEt
    \/ EtSimulateOk /\ UNCHANGED exceptEt
    \/ EtSimulateFails /\ UNCHANGED exceptEt
    \/ EtSendOk /\ UNCHANGED exceptEt
    \/ EtSendFails /\ UNCHANGED exceptEt
    \/ EtConfirmResolves /\ UNCHANGED exceptEt
    \/ EtConfirmFails /\ UNCHANGED exceptEt
    \/ EtRetryWaitOver /\ UNCHANGED exceptEt

SpecTrade == InitTrade /\ [][NextTrade]_vars

InitPump ==
    /\ height = 0 /\ landed = {}
    /\ CtIdle /\ JIdle /\ FIdle /\ TIdle /\ BIdle /\ EtIdle
    /\ PpStart
    /\ GIdle
    /\ WsIdle
    /\ VbIdle
    /\ TcIdle
    /\ QIdle
    /\ RIdle
    /\ LIdle
    /\ SIdle

\* one call of PumpPortalClient.executeTrade or executeTradeBundle
NextPump ==
    \/ PpCall /\ UNCHANGED exceptPp
    \/ PpTradeOk /\ UNCHANGED exceptPp
    \/ PpTradeFails /\ UNCHANGED exceptPp
    \/ PpSendTransactionOk /\ UNCHANGED exceptPp
    \/ PpSendTransactionFails /\ UNCHANGED exceptPp
    \/ PpRelayAnswers /\ UNCHANGED exceptPp
    \/ PpRelayRejects /\ UNCHANGED exceptPp

SpecPump == InitPump /\ [][NextPump]_vars

InitGroups ==
    /\ height = 0 /\ landed = {}
    /\ CtIdle /\ JIdle /\ FIdle /\ TIdle /\ BIdle /\ EtIdle /\ PpIdle
    /\ GStart
    /\ WsIdle
    /\ VbIdle
    /\ TcIdle
    /\ QIdle
    /\ RIdle
    /\ LIdle
    /\ SIdle

\* one run of start() of the multi-wallet bot
NextGroups ==
    \/ GBuildGroups /\ UNCHANGED exceptG
    \/ GCycleStarts /\ UNCHANGED exceptG
    \/ GLoopEnds /\ UNCHANGED exceptG
    \/ \E s \in DOMAIN task : GTaskDelayOver(s) /\ UNCHANGED exceptG
    \/ \E s \in DOMAIN task : GTaskSettles(s) /\ UNCHANGED exceptG
    \/ \E g \in 1..Len(walletGroups) : GWaitOver(g) /\ UNCHANGED exceptG
    \/ GCycleDone /\ UNCHANGED exceptG
    \/ GDelayOver /\ UNCHANGED exceptG

SpecGroups == InitGroups /\ [][NextGroups]_vars

InitClient ==
    /\ height = 0 /\ landed = {}
    /\ CtIdle /\ JIdle /\ FIdle /\ TIdle /\ BIdle /\ EtIdle /\ PpIdle /\ GIdle
    /\ WsIdle
    /\ VbIdle
    /\ TcIdle
    /\ QIdle
    /\ RIdle
    /\ LIdle
    /\ SIdle

\* a PumpPortalClient, its callers and its sockets
NextClient ==
    \/ WsConnectReuses /\ UNCHANGED exceptWs
    \/ WsConnectCreates /\ UNCHANGED exceptWs
    \/ WsConnectThrows /\ UNCHANGED exceptWs
    \/ \E s \in 1..Len(sockets) : WsOpenEvent(s) /\ UNCHANGED exceptWs
    \/ \E s \in 1..Len(sockets) : WsErrorEvent(s) /\ UNCHANGED exceptWs
    \/ \E s \in 1..Len(sockets) : WsCloseEvent(s) /\ UNCHANGED exceptWs
    \/ WsClose /\ UNCHANGED exceptWs
    \/ WsSubscribeNewToken /\ UNCHANGED exceptWs
    \/ \E t \in KeyLists(Tokens) : WsSubscribeTokenTrade(t) /\ UNCHANGED exceptWs
    \/ \E t \in KeyLists(Tokens) : WsUnsubscribeTokenTrade(t) /\ UNCHANGED exceptWs
    \/ \E a \in KeyLists(Accounts) : WsSubscribeAccountTrade(a) /\ UNCHANGED exceptWs

SpecClient == InitClient /\ [][NextClient]_vars

InitBot ==
    /\ height = 0 /\ landed = {}
    /\ CtIdle /\ JIdle /\ FIdle /\ TIdle /\ BIdle /\ EtIdle /\ PpIdle /\ GIdle
    /\ WsIdle
    /\ VbIdle
    /\ TcIdle
    /\ QIdle
    /\ RIdle
    /\ LIdle
    /\ SIdle

\* a VolumeBot and its callers
NextBot ==
    \/ \E t \in BotTokens, p \in Platforms : VbStart(t, p) /\ UNCHANGED exceptVb
    \/ \E t \in BotTokens : VbMonitorOk(t) /\ UNCHANGED exceptVb
    \/ \E t \in BotTokens : VbMonitorFails(t) /\ UNCHANGED exceptVb
    \/ \E t \in BotTokens : VbLoopWakes(t) /\ UNCHANGED exceptVb
    \/ \E t \in BotTokens : VbStop(t) /\ UNCHANGED exceptVb
    \/ \E t \in BotTokens : VbUnsubscribeOk(t) /\ UNCHANGED exceptVb
    \/ \E t \in BotTokens : VbUnsubscribeFails(t) /\ UNCHANGED exceptVb

SpecBot == InitBot /\ [][NextBot]_vars

InitCycle ==
    /\ height = 0 /\ landed = {}
    /\ CtIdle /\ JIdle /\ FIdle /\ TIdle /\ BIdle /\ EtIdle /\ PpIdle /\ GIdle
    /\ WsIdle /\ VbIdle
    /\ TcIdle
    /\ QIdle
    /\ RIdle
    /\ LIdle
    /\ SIdle

\* a caller running trade cycles of one wallet, one after the other
NextCycle ==
    \/ \E type \in {"pump", "jupiter"}, w \in {0, 1} :
         TcCall(type, w) /\ UNCHANGED exceptTc
    \/ TcBuySettles /\ UNCHANGED exceptTc
    \/ TcWaitOver /\ UNCHANGED exceptTc
    \/ TcSellSettles /\ UNCHANGED exceptTc

SpecCycle == InitCycle /\ [][NextCycle]_vars

\* an event of socket s is delivered
SocketEvent(s) ==
    /\ s \in 1..Len(sockets)
    /\ WsOpenEvent(s) \/ WsErrorEvent(s) \/ WsCloseEvent(s)
    /\ UNCHANGED exceptWs

\* every socket goes on to its final state
FairSpecClient ==
    SpecClient /\ \A s \in 1..MaxSockets : WF_vars(SocketEvent(s))

InitQueue ==
    /\ height = 0 /\ landed = {}
    /\ CtIdle /\ JIdle /\ FIdle /\ TIdle /\ BIdle /\ EtIdle /\ PpIdle /\ GIdle
    /\ WsIdle /\ VbIdle /\ TcIdle
    /\ QIdle
    /\ RIdle
    /\ LIdle
    /\ SIdle

\* a SimpleRequestQueue, its callers, its operations and its timers
NextQueue ==
    \/ QAdd /\ UNCHANGED exceptQ
    \/ \E c \in chains : QDelayOver(c) /\ UNCHANGED exceptQ
    \/ \E c \in chains : QOperationSettles(c) /\ UNCHANGED exceptQ
    \/ \E c \in chains : QTimerFires(c) /\ UNCHANGED exceptQ

SpecQueue == InitQueue /\ [][NextQueue]_vars

\* timers fire and operations settle
FairSpecQueue ==
    SpecQueue /\ WF_vars(\E c \in chains :
                    (QDelayOver(c) \/ QOperationSettles(c) \/ QTimerFires(c))
                    /\ UNCHANGED exceptQ)

InitTokens ==
    /\ height = 0 /\ landed = {}
    /\ CtIdle /\ JIdle /\ FIdle /\ TIdle /\ BIdle /\ EtIdle /\ PpIdle /\ GIdle
    /\ WsIdle /\ VbIdle /\ TcIdle /\ QIdle
    /\ RIdle
    /\ LIdle
    /\ SIdle

\* the log subscription of monitorNewTokens and the operations of
\* processNewToken
NextTokens ==
    \/ \E tx \in LoggedTxs : RLog(tx) /\ UNCHANGED exceptR
    \/ ROpStarts /\ UNCHANGED exceptR
    \/ \E op \in rOps : RGetTransaction(op) /\ UNCHANGED exceptR
    \/ \E op \in rOps : RGetAccountInfo(op) /\ UNCHANGED exceptR
    \/ \E op \in rOps : RGetTokenInfo(op) /\ UNCHANGED exceptR

SpecTokens == InitTokens /\ [][NextTokens]_vars

InitRestart ==
    /\ height = 0 /\ landed = {}
    /\ CtIdle /\ JIdle /\ FIdle /\ TIdle /\ BIdle /\ EtIdle /\ PpIdle /\ GIdle
    /\ WsIdle /\ VbIdle /\ TcIdle /\ QIdle /\ RIdle
    /\ LStart
    /\ SIdle

\* a SimpleVolumeBot, the callers of start() and stop(), and its loops
NextRestart ==
    \/ LStartThrows /\ UNCHANGED exceptL
    \/ LStartRuns /\ UNCHANGED exceptL
    \/ \E l \in 1..MaxStarts : LCycleDone(l) /\ UNCHANGED exceptL
    \/ \E l \in 1..MaxStarts : LWakes(l) /\ UNCHANGED exceptL
    \/ LStop /\ UNCHANGED exceptL

SpecRestart == InitRestart /\ [][NextRestart]_vars

InitStats ==
    /\ height = 0 /\ landed = {}
    /\ CtIdle /\ JIdle /\ FIdle /\ TIdle /\ BIdle /\ EtIdle /\ PpIdle /\ GIdle
    /\ WsIdle /\ VbIdle /\ TcIdle /\ QIdle /\ RIdle /\ LIdle
    /\ SStart

\* the loop of start() and the trade cycles it awaits
NextStats ==
    \/ SRoundStarts /\ UNCHANGED exceptS
    \/ SLoopEnds /\ UNCHANGED exceptS
    \/ \E g \in 1..Len(sGroups) : SBuysSettle(g) /\ UNCHANGED exceptS
    \/ \E g \in 1..Len(sGroups) : SWaitOver(g) /\ UNCHANGED exceptS
    \/ \E g \in 1..Len(sGroups) : SSellsSettle(g) /\ UNCHANGED exceptS
    \/ \E g \in 1..Len(sGroups) : STradesReject(g) /\ UNCHANGED exceptS
    \/ SRoundDone /\ UNCHANGED exceptS
    \/ SRoundThrows /\ UNCHANGED exceptS
    \/ SDelayOver /\ UNCHANGED exceptS
    \/ SwCycleStarts /\ UNCHANGED exceptS
    \/ SwSwapSettles /\ UNCHANGED exceptS

SpecStats == InitStats /\ [][NextStats]_vars

\* a step of the call: an awaited network call settles or a timer fires
CtStep ==
    /\ \/ CtBlockhashOk \/ CtBlockhashFails \/ CtStatus \/ CtDelayOver
       \/ CtStatus429 \/ CtRateLimitDelayOver \/ CtStatusError
    /\ UNCHANGED exceptCt

\* every network call settles and every timer fires
FairSpecConfirm == SpecConfirm /\ WF_vars(CtStep)

(***************************************************************************)
(* Claims.                                                                 *)
(***************************************************************************)
\* the step is a primary status query answered with a status
CtPolled == Len(history') = Len(history) + 1 /\ history'[Len(history')] = "status"

\* C1: a status response carrying an on-chain error ends the call as failure
\* on that same poll (no wait scheduled, the fallback not reached, no
\* secondary query), whatever attempts and rateLimitRetries are and whatever
\* confirmationStatus the response reports; once ended, the call queries and
\* waits no more.
C1_ErrorShortCircuits ==
    [][ /\ (CtPolled /\ lastStatus'.err) =>
            /\ ctPc' = "done"
            /\ ctResult' = "false"
            /\ waits' = waits
            /\ fallbackCalls' = fallbackCalls
            /\ secondaryQueries' = secondaryQueries
        /\ ctPc = "done" => UNCHANGED ctVars ]_vars

\* C1 witness: an errored response that also reports 'finalized' ended the
\* call as failure after earlier pending polls and 429 answers
C1_Witness ==
    /\ ctPc = "done" /\ ctResult = "false"
    /\ lastStatus.err /\ lastStatus.confirmationStatus = "finalized"
    /\ history[Len(history)] = "status"
    /\ attempts = 2 /\ rateLimitRetries = 2

\* the first three primary status queries were answered with HTTP 429
FirstThree429 == Len(history) >= 3 /\ \A i \in 1..3 : history[i] = "429"

\* C2 (as claimed): after three 429 answers in a row the primary is not
\* queried a fourth time, the secondary service is queried instead, and a
\* secondary report of 'finalized' makes the call return success.
C2_FallbackAfterThree429 ==
    FirstThree429 =>
        /\ Len(history) = 3
        /\ secondaryQueries = 1
        /\ (solscanStatus = "finalized" => ctResult = "true")

\* C3 (as claimed): a poll answered Pending at a block height greater than
\* the lease's lastValidBlockHeight ends the call as failure at that poll.
C3_ExpiryPrecedence ==
    ( /\ history # <<>>
      /\ history[Len(history)] = "status"
      /\ StatusVerdict(lastStatus) = "pending"
      /\ pollHeight > lastValidBlockHeight )
    => (ctPc = "done" /\ ctResult = "false")

JAlive(a) == jRs[a] \in {"sleeping", "sending"}

\* C4: the first send of every attempt carries the blockhash that
\* getLatestBlockhash answered inside that same attempt, signed anew over it,
\* and that lease is none an earlier attempt has observed as expired.
C4_FreshLeasePerAttempt ==
    [][ \A s \in jSends' \ jSends :
          s.kind = "send" =>
            /\ s.attempt = jAttempt
            /\ s.tx.recentBlockhash = jFetched'[s.attempt].blockhash
            /\ s.tx.signature = Sign(jFetched'[s.attempt].blockhash)
            /\ \A e \in jExpired : e.blockhash # s.tx.recentBlockhash
            /\ \A b \in 1..(s.attempt - 1) :
                 jFetched'[b] = NoLease \/ jOutcome[b] \in JTerminal ]_vars

\* C4 witness: attempt 1 observed its lease expired and attempt 2 has sent
C4_Witness ==
    /\ jOutcome[1] = "expired"
    /\ \E s \in jSends : s.kind = "send" /\ s.attempt = 2

\* C6: every resend carries exactly the bytes of the first send of its
\* attempt, hence the same signature.
C6_ResendSamePayload ==
    \A s \in jSends :
        s.kind = "resend" =>
          \E o \in jSends :
            /\ o.kind = "send" /\ o.attempt = s.attempt
            /\ o.tx = s.tx
            /\ SignatureOf(o.tx) = SignatureOf(s.tx)

\* C6 witness: a resend of attempt 2 made after the network moved past the
\* block of the attempt's blockhash
C6_Witness ==
    \E s \in jSends :
        s.kind = "resend" /\ s.attempt = 2 /\ height > s.tx.recentBlockhash

\* C7: once the signal of an attempt is set, its resender starts no further
\* resend; a resend in flight at that moment may still settle.
C7_NoResendAfterAbort ==
    [][ \A a \in Attempts :
          jAborted[a] =>
            /\ { s \in jSends' : s.attempt = a } = { s \in jSends : s.attempt = a }
            /\ (jRs[a] # "sending" => jRs'[a] # "sending") ]_vars

\* C7 witness: the signal was set while a resend was in flight, the resend
\* settled and the resender sleeps once more
C7_Witness ==
    \E a \in Attempts :
        /\ jAborted[a] /\ jRs[a] = "sleeping" /\ jAttempt > a
        /\ \E s \in jSends : s.kind = "resend" /\ s.attempt = a

\* C8 (as claimed): at most one resender task is alive at any moment, and
\* none once the call has returned or thrown.
C8_OneResenderAlive ==
    /\ Cardinality({ a \in Attempts : JAlive(a) }) <= 1
    /\ jPc = "done" => \A a \in Attempts : ~JAlive(a)

\* C8 (amended): at most one resender whose signal is not set is alive; when
\* the resender of a later attempt is started the signals of all earlier
\* attempts are set; once the call has returned or thrown every signal of a
\* started resender is set.
C8_OneActiveResender ==
    /\ Cardinality({ a \in Attempts : JAlive(a) /\ ~jAborted[a] }) <= 1
    /\ \A a, b \in Attempts :
         (a < b /\ jRs[a] # "none" /\ jRs[b] # "none") => jAborted[a]
    /\ jPc = "done" => \A a \in Attempts : jRs[a] # "none" => jAborted[a]

\* C8 witness: a cancelled resender of attempt 1 is still alive while the
\* resender of attempt 2 runs
C8_Witness ==
    /\ JAlive(1) /\ jAborted[1]
    /\ JAlive(2) /\ ~jAborted[2]

\* C9: the resender of an attempt that reached a terminal state eventually
\* terminates.
C9_ResenderTerminates ==
    \A a \in Attempts :
        (jOutcome[a] \in JTerminal) ~> (jRs[a] \in {"none", "exited"})

\* C9 witness: a resender that had resent has exited after its attempt expired
C9_Witness ==
    \E a \in Attempts :
        /\ jOutcome[a] = "expired" /\ jRs[a] = "exited"
        /\ \E s \in jSends : s.kind = "resend" /\ s.attempt = a

\* the first sends of the attempts of _sendAndConfirmTransactionWithRetry
JFirstSends == { s \in jSends : s.kind = "send" }

\* the distinct identifiers its sends and resends have produced
JIdentifiers == { SignatureOf(s.tx) : s \in jSends }

\* C5: the submission attempts of a logical transaction, and the distinct
\* network identifiers it produced, never exceed the configured maximum:
\* maxAttempts of _sendAndConfirmTransactionWithRetry, 3 of
\* fundTraderWallet, maxRetries of transferWithRetries, 45 of the buy loop.
C5_AttemptCeiling ==
    /\ Cardinality(JFirstSends) <= jMaxAttempts
    /\ Cardinality(JIdentifiers) <= jMaxAttempts
    /\ Len(fSends) <= fundMaxRetries
    /\ tSubmitted <= tMaxRetries
    /\ bSubmitted <= buyMaxRetries

\* C5 witness: a call with maxAttempts = 3 ended after three attempts, each
\* with a resend: six sends, three identifiers
C5_Witness ==
    /\ jMaxAttempts = 3 /\ jPc = "done"
    /\ Cardinality(jSends) = 6
    /\ Cardinality(JIdentifiers) = 3

\* C10: attempts are strictly sequential: an attempt exists only when every
\* earlier attempt is in a terminal per-attempt state, so at most one attempt
\* is being sent or confirmed at any time.
C10_AttemptsSequential ==
    /\ \A a \in Attempts :
         (a > 1 /\ jOutcome[a] # "none") => jOutcome[a - 1] \in JTerminal
    /\ Cardinality({ a \in Attempts :
                       jOutcome[a] \in {"sending", "confirming"} }) <= 1
    /\ \A a \in FundAttempts :
         (a > 1 /\ fOutcome[a] # "none") => fOutcome[a - 1] \in FTerminal
    /\ Cardinality({ a \in FundAttempts :
                       fOutcome[a] \in {"sending", "confirming"} }) <= 1

\* C10 witness: the second transfer of fundTraderWallet is being confirmed
\* after the first timed out
C10_Witness ==
    /\ fOutcome[1] = "timedOut"
    /\ fOutcome[2] = "confirming"

\* the waits of one kind ("poll" or "rateLimit") scheduled so far, in order
WaitsOfKind(k) == SelectSeq(waits, LAMBDA w : w[1] = k)

RECURSIVE SumWaits(_)
\* the milliseconds of a sequence of waits, added up
SumWaits(s) == IF s = <<>> THEN 0 ELSE s[1][2] + SumWaits(Tail(s))

\* how many primary status queries were answered with HTTP 429
Count429 == Len(SelectSeq(history, LAMBDA h : h = "429"))

\* C13 (as claimed): a primary status query rejected by a transport error
\* other than HTTP 429 while both budgets remain does not end the
\* confirmation as failure.
C13_TransientErrorRetried ==
    ( /\ history # <<>>
      /\ history[Len(history)] = "error"
      /\ attempts < maxAttempts
      /\ rateLimitRetries <= maxRateLimitRetries )
    => (ctPc # "done" /\ ctResult # "false")

\* C14 (as claimed): the secondary status check is invoked only in runs in
\* which the primary answered HTTP 429 more often than the rate-limit budget
\* allows; a run without any 429 never invokes it.
C14_SecondaryOnlyWhenRateLimited ==
    fallbackCalls > 0 => Count429 > maxRateLimitRetries

\* C16: the rate-limit waits of a call are 1000 ms * 2^N for the Nth retry,
\* so none is shorter than the one before, and at most maxRateLimitRetries
\* of them are performed, also when the call has fallen back.
C16_RateLimitBackoff ==
    LET rl == WaitsOfKind("rateLimit") IN
      /\ Len(rl) <= maxRateLimitRetries
      /\ \A n \in 1..Len(rl) : rl[n][2] = rateLimitBaseDelay * Pow2(n)
      /\ \A n \in 2..Len(rl) : rl[n][2] >= rl[n - 1][2]

\* C16 witness: the fourth 429 made the call fall back after three
\* rate-limit retries
C16_Witness ==
    /\ ctPc = "done"
    /\ fallbackCalls = 1
    /\ rateLimitRetries = maxRateLimitRetries + 1
    /\ Len(WaitsOfKind("rateLimit")) = maxRateLimitRetries
    /\ history[Len(history)] = "429"

\* C17 (as claimed): the wait after the k-th inconclusive primary poll is
\* initialDelay * 2^(k-1), 3000 ms after the first, and at most maxAttempts
\* inconclusive polls are made.
C17_MainBackoff ==
    LET p == WaitsOfKind("poll") IN
      /\ Len(p) <= maxAttempts
      /\ \A k \in 1..Len(p) : p[k][2] = initialDelay * Pow2(k - 1)

\* C18 (as claimed): the waits scheduled during one call add up to at most
\* 45 000 ms.
C18_WallClockCeiling == SumWaits(waits) <= 45000

\* C19: a primary response without error that reports 'confirmed' or
\* 'finalized' ends the call as success on that poll, with no wait scheduled
\* and the fallback not reached (so the first poll returns with no wait at
\* all); once ended, no further status query is made.
C19_ImmediateSuccess ==
    [][ /\ ( /\ CtPolled
             /\ ~lastStatus'.err
             /\ lastStatus'.confirmationStatus \in {"confirmed", "finalized"} )
            => /\ ctPc' = "done"
               /\ ctResult' = "true"
               /\ waits' = waits
               /\ fallbackCalls' = fallbackCalls
               /\ (history = <<>> => waits' = <<>>)
        /\ ctResult = "true" => history' = history ]_vars

\* C19 witness: the first response reported 'finalized' and the call
\* returned success after one query and no wait
C19_Witness ==
    /\ ctPc = "done" /\ ctResult = "true"
    /\ history = <<"status">>
    /\ lastStatus = [err |-> FALSE, confirmationStatus |-> "finalized"]
    /\ waits = <<>>

\* C11 (as claimed): once a status response of fundTraderWallet has reported
\* an execution error (and neither 'confirmed' nor 'finalized'), the call has
\* ended on that poll by throwing an error that holds the error detail, so
\* no further status request and no new transfer follows.
C11_FundErrorShortCircuits ==
    fErrSeen =>
        /\ fPc = "done"
        /\ fResult = "threw"
        /\ fError.message = "Transaction failed: err"

\* C12 (as claimed): _sendAndConfirmTransactionWithRetry returns a signature
\* only when the confirmation it returned on carries no execution error.
C12_SuccessOnlyWithoutError ==
    jResult = "returned" => ~jConfirmErr

\* C15 (as claimed): when one of the three operations ends by throwing after
\* a signature had been assigned to one of its submissions, the error it
\* throws holds a signature of the call's submissions.
C15_FailureCarriesIdentifier ==
    /\ (jResult = "threw" /\ jSignature # NoSignature)
          => jError.signatures \cap JIdentifiers # {}
    /\ (fResult = "threw" /\ fSends # <<>>)
          => \E i \in 1..Len(fSends) : fSends[i] \in fError.signatures
    /\ (tResult = "threw" /\ tSignature # NoSignature)
          => tError.signatures # {}

\* C20 (as claimed): no send of executeTrade after the first carries a
\* transaction whose blockhash lease has expired at the time of the send.
C20_NoExpiredLeaseResent ==
    \A i \in 2..Len(etSends) :
        etSends[i].height <= etSends[i].tx.recentBlockhash + Validity

\* C21: fundTraderWallet makes at most 3 attempts; the wait after attempt i
\* (i = 1, 2) is i * 2000 ms; the call ends only by returning the signature
\* of the transfer whose status it saw as 'confirmed' or 'finalized', or by
\* throwing after the third attempt, never without a value.
C21_FundOuterLoop ==
    /\ fAttempt <= fundMaxRetries
    /\ Len(fSends) <= fundMaxRetries
    /\ Len(fWaits) <= fundMaxRetries - 1
    /\ \A i \in 1..Len(fWaits) : fWaits[i] = i * 2000
    /\ fPc = "done" => fResult \in {"returned", "threw"}
    /\ fResult = "returned" =>
          /\ fOutcome[fAttempt] = "confirmed"
          /\ fSignature # NoSignature
          /\ fSignature = fSends[Len(fSends)]
    /\ fResult = "threw" => fAttempt = fundMaxRetries

\* C21 witness: three attempts timed out, with waits of 2000 and 4000 ms
\* between them, and the call threw
C21_Witness ==
    /\ fPc = "done" /\ fResult = "threw"
    /\ fWaits = <<2000, 4000>>
    /\ \A a \in FundAttempts : fOutcome[a] = "timedOut"

\* C22 (as claimed): of the transfers one call of fundTraderWallet has
\* submitted, the network executes at most one.
C22_FundedAtMostOnce ==
    Cardinality(landed \cap FundSubmitted) <= 1

\* the call is made with a signer missing: executeTrade without
\* config.signerKeyPair, executeTradeBundle (on valid bundleParams) without
\* config.bundleSigners[i] for some transaction i
MissingSigner ==
    \/ ppOp = "executeTrade" /\ ~signerKeyPair
    \/ ppOp = "executeTradeBundle" /\ ~BundleParamsInvalid
                                    /\ UnsignedIndexes # {}

\* C23 (as claimed): a call made with a signer missing makes no network
\* call at all and ends by throwing.
C23_MissingSignerFailsFast ==
    MissingSigner =>
        /\ ppCalls = <<>>
        /\ ppPc = "done" => ppResult = "threw"

\* C24 (as claimed): executeTradeBundle returns only when the relay answered
\* with a result (the bundle identifier); an answer carrying an error, an
\* answer that is not ok and a failed request make it throw.
C24_RelayFailureTerminal ==
    (ppOp = "executeTradeBundle" /\ ppPc = "done") =>
        /\ ppResult = "returned" => relayAnswer = "result"
        /\ relayAnswer \in {"error", "notOk", "rejected"} => ppResult = "threw"

\* C25: in the group-buy flow every status request carries the bundle id
\* the relay returned for the bundle of the current try; when a request is
\* answered 'confirmed' or 'finalized' the flow returns, reporting that
\* status and exactly that bundle id.
C25_BundleSuccessReport ==
    /\ bPc \in {"getBundleStatuses", "bundlePollWait"} =>
          /\ bBundleId = BundleIdOf(currentTry)
          /\ bQueried = bBundleId
    /\ bStatusSeen \in {"confirmed", "finalized"} =>
          /\ bPc = "done" /\ bResult = "returned"
          /\ bQueried = bBundleId
          /\ bReport = [bundleId |-> BundleIdOf(currentTry),
                        status |-> bStatusSeen]
    /\ bResult = "returned" => bStatusSeen \in {"confirmed", "finalized"}

\* C25 witness: the bundle of the second try was reported 'confirmed' after
\* a status request that had found no entry
C25_Witness ==
    /\ bResult = "returned"
    /\ currentTry = 2
    /\ bElapsed >= bundlePollInterval
    /\ bReport = [bundleId |-> BundleIdOf(2), status |-> "confirmed"]

\* the wallets of a group
GroupWallets(g) == { walletGroups[g][i] : i \in 1..Len(walletGroups[g]) }

\* the _executeSingleTrade calls in flight for wallet w
FlowsInFlight(w) ==
    { s \in DOMAIN task : walletGroups[s[1]][s[2]] = w /\ task[s] = "trading" }

SocketsBuilt == { s \in 1..Len(sockets) : sockets[s] # "none" }

ClientConnected == isConnected /\ ws # 0 /\ sockets[ws] = "open"

\* the step serves a call of the given method
Serves(method) == calls' = calls + 1 /\ lastCall'.method = method

\* C28: subscribeTokenTrade(T) on a connected client sends one message
\* {method: 'subscribeTokenTrade', keys} whose keys are the tokens of T not
\* yet in subscribedTokens, and then subscribedTokens holds every token of
\* T; when every token of T is subscribed already nothing is sent; when
\* sending fails subscribedTokens is unchanged.
C28_SubscribeTokenTrade ==
    [][ Serves("subscribeTokenTrade") =>
          LET T == Elements(lastCall'.keys)
              new == T \ subscribedTokens
          IN  /\ (ClientConnected \/ new = {}) => ~lastCall'.threw
              /\ IF new = {} \/ lastCall'.threw
                   THEN /\ sentCount' = sentCount
                        /\ subscribedTokens' = subscribedTokens
                   ELSE /\ sentCount' = sentCount + 1
                        /\ lastMessage'.method = "subscribeTokenTrade"
                        /\ Elements(lastMessage'.keys) = new
                        /\ subscribedTokens' = subscribedTokens \cup T ]_vars

\* C28 witness: with token1 subscribed, subscribeTokenTrade([token1,
\* token2]) has sent the keys [token2]
C28_Witness ==
    /\ lastCall = [method |-> "subscribeTokenTrade",
                   keys |-> <<"token1", "token2">>, threw |-> FALSE]
    /\ sentCount = 2
    /\ lastMessage = [method |-> "subscribeTokenTrade", keys |-> <<"token2">>]
    /\ subscribedTokens = {"token1", "token2"}

\* C29: subscribeAccountTrade(A) on a connected client sends the message
\* {method: 'subscribeAccountTrade', keys: A} and then subscribedAccounts
\* holds every account of A.
C29_SubscribeAccountTrade ==
    [][ (Serves("subscribeAccountTrade") /\ ClientConnected) =>
          /\ ~lastCall'.threw
          /\ sentCount' = sentCount + 1
          /\ lastMessage' = [method |-> "subscribeAccountTrade",
                             keys |-> lastCall'.keys]
          /\ Elements(lastCall'.keys) \subseteq subscribedAccounts' ]_vars

\* C30: every token whose startVolumeBot has returned, and for which
\* stopVolumeBot was not called since, is in activeTokens, is monitored and
\* has a volume-management loop that goes on running.
C30_TokensRunIndependently ==
    \A t \in startedOk :
        /\ activeTokens[t] # "none"
        /\ t \in monitored
        /\ loops[t] > 0 /\ vbIsRunning

\* C31: _executeTradeCycle resolves to true only when both the buy and the
\* sell of the cycle returned true, so a caller that counts a success when
\* the call returns normally never counts a cycle with a failed trade.
C31_CycleSuccessNeedsBothTrades ==
    /\ tcResult = "true" => (tcBuy = "true" /\ tcSell = "true")
    /\ failedCounted = 0

\* C32: a status request of waitForBundleConfirmation that throws, or whose
\* answer holds no entry or a status other than 'confirmed' / 'finalized',
\* is followed by the 1000 ms wait; the wait ends only with one of these two
\* values, which main reports, or at the deadline with the timeout error.
C32_WaitAbsorbsTransientErrors ==
    [][ /\ bPc = "getBundleStatuses" =>
             IF bStatusSeen' \in {"confirmed", "finalized"}
               THEN /\ bResult' = "returned"
                    /\ bReport'.status = bStatusSeen'
               ELSE /\ bPc' = "bundlePollWait"
                    /\ bResult' = bResult
        /\ (bPc = "bundlePollWait" /\ bPc' # "getBundleStatuses") =>
             /\ bElapsed' >= bundleTimeout
             /\ bPc' \in {"retryWait", "done"} ]_vars

\* C32 witness: a status request has thrown after the first poll interval
\* and the wait goes on
C32_Witness ==
    /\ bPc = "bundlePollWait"
    /\ bStatusSeen = "error"
    /\ bElapsed >= 2 * bundlePollInterval
    /\ bElapsed < bundleTimeout

\* the step delivers an event of socket s
EventOf(s) ==
    /\ s \in 1..Len(sockets)
    /\ Len(sockets') = Len(sockets)
    /\ sockets'[s] # sockets[s]
    /\ sockets'[s] \in {"open", "errored", "closed"}

\* C33: isConnected is true only while ws holds the socket whose 'open'
\* event set it, and an event of a socket other than the one the client
\* holds changes none of ws, isConnected and connectionPromise.
C33_StaleEventsIgnored ==
    [][ /\ isConnected' => (ws' # 0 /\ sockets'[ws'] = "open")
        /\ \A s \in 1..MaxSockets :
             (EventOf(s) /\ ws # 0 /\ ws # s) =>
                UNCHANGED <<ws, isConnected, connectionPromise>> ]_vars

\* C34: every promise connect() has handed out settles.
C34_ConnectPromiseSettles ==
    \A p \in 1..MaxSockets :
        (p \in 1..Len(promises)) ~>
            (p \in 1..Len(promises) /\ promises[p] # "pending")

\* C35: a token is in subscribedTokens only if the client holds an open
\* socket on which a subscribe message for the token was sent and no
\* unsubscribe message for it since.
C35_SubscriptionsFollowConnection ==
    \A t \in subscribedTokens :
        /\ ws # 0
        /\ sockets[ws] = "open"
        /\ t \in subscribedOn[ws]

\* the operations running
OpsRunning == { c.op : c \in { d \in chains : d.pc = "operation" } }

\* C36: at most one operation runs at a time; operations start in the order
\* they were added, each only after every operation added before it has
\* settled; the promise of an add() settles with the outcome of its own
\* operation; and every operation added is run and settles, whatever the
\* outcomes of the ones before it.
C36_QueueSerialFifo ==
    /\ [](/\ Cardinality(OpsRunning) <= 1
          /\ \A i \in 1..Len(opsStarted) : opsStarted[i] = i
          /\ \A o \in OpsRunning, k \in 1..MaxOps :
                k < o => opSettled[k].outcome # "pending"
          /\ \A o \in 1..MaxOps :
                opSettled[o].outcome # "pending" => opSettled[o].of = o)
    /\ \A o \in 1..MaxOps :
          (opsAdded >= o) ~> (opSettled[o].outcome # "pending")

\* C36 witness: the first operation failed, the second runs and two more
\* wait in the order they were added
C36_Witness ==
    /\ opSettled[1].outcome = "rejected"
    /\ OpsRunning = {2}
    /\ queue = <<3, 4>>

LiveLoops == { l \in 1..MaxStarts : loopPc[l] \in {"cycle", "sleep"} }

\* C38: at most one loop that stop() was not called on is live, a loop that
\* stop() was called on begins no further trade cycle, and isRunning is
\* false on a bot without trader wallets.
C38_OneActiveLoop ==
    /\ Cardinality({ l \in LiveLoops : ~stopped[l] }) <= 1
    /\ \A l \in 1..MaxStarts : ~ranAfterStop[l]
    /\ ~hasTraders => ~sbIsRunning

\* group g returns true in this step
GroupReturnsTrue(g) ==
    g \in 1..Len(sGroups) /\ sPc[g] = "sell" /\ sPc'[g] = "true"

\* C39: successfulTrades never exceeds totalTrades, and a group cycle of n
\* wallets that returns true adds 2n to totalTrades and the number of its
\* trades that returned true to successfulTrades.
C39_SuccessfulAtMostTotal ==
    /\ [](successfulTrades <= totalTrades)
    /\ [][\A g \in 1..MaxWallets :
            GroupReturnsTrue(g) =>
              /\ totalTrades' = totalTrades + 2 * sGroups[g]
              /\ successfulTrades' =
                   successfulTrades + sBuyOk'[g] + sSellOk'[g]]_vars

\* two groups have run concurrently, one returned true with every trade
\* successful and failed attempts were counted as well
C39_Witness ==
    /\ Len(sGroups) = 2
    /\ sPc[1] = "true" /\ sBuyOk[1] + sSellOk[1] = 2 * sGroups[1]
    /\ sPc[2] \in {"buy", "wait", "sell"}
    /\ successfulTrades >= 2 * sGroups[1]
    /\ totalTrades > successfulTrades

\* the primary status queries of the call so far
PrimaryQueries == Len(history)

\* C40: every call of _confirmTransaction ends, with true or false as its
\* returned value, after at most 8 primary status queries and at most one
\* use of the secondary service; rateLimitRetries never decreases, and a
\* query answered with 429 leaves attempts as it is.
C40_ConfirmTerminates ==
    /\ <>(ctPc = "done")
    /\ [](/\ PrimaryQueries <= 8
          /\ fallbackCalls <= 1 /\ secondaryQueries <= 1
          /\ ctPc = "done" => ctResult \in {"true", "false"})
    /\ [][/\ rateLimitRetries' >= rateLimitRetries
          /\ (PrimaryQueries' > PrimaryQueries /\
              history'[PrimaryQueries'] = "429") =>
                /\ attempts' = attempts
                /\ rateLimitRetries' = rateLimitRetries + 1]_vars

\* a call that ended after 8 primary queries, rate-limited 4 times between
\* pending polls
C40_Witness ==
    /\ ctPc = "done"
    /\ PrimaryQueries = 8
    /\ attempts = 4 /\ rateLimitRetries = 4
    /\ \E i \in 1..7 : history[i] = "429" /\ history[i + 1] = "status"
    /\ ctResult = "false"

====
